---- MODULE Spec2Model ----
(***************************************************************************)
(* A model of sghi-commons: the signal dispatcher (sghi.dispatch) and the  *)
(* signal-emitting registry (sghi.registry) built on it.                   *)
(*                                                                         *)
(* The program state is the dispatcher's fields (_receivers, _lock,        *)
(* _has_dead_receivers) and the registry's _items.  The Python runtime is  *)
(* part of the model where the code depends on it: which receiver objects  *)
(* are still alive, which weakref.finalize callbacks are still to run, and *)
(* the set iterator that send() walks after _live_receivers() has released *)
(* the lock.  Each thread has a position (pc), the call it is in (frame),  *)
(* and the outcome of its last call (result).                              *)
(*                                                                         *)
(* Three further components have their own state and specifications:       *)
(* the exponential-backoff retry policy (sghi.retry: policy, now,          *)
(* retrying), with the clock and the length of each sleep left to the      *)
(* environment; the configuration objects (sghi.config: mappings, configs, *)
(* proxy, answer), with the caller's settings mapping kept apart from the  *)
(* copy a Config owns; and the concurrent executor (sghi.task: executor,   *)
(* futures, executing), with the pool's workers running submitted tasks.   *)
(*                                                                         *)
(* replica is the map that a listener of the registry's signals keeps of   *)
(* the registry's items.                                                   *)
(***************************************************************************)
EXTENDS Integers, FiniteSets, Sequences, TLC

\* ------------------------------------------------------------------ bounds

NumReceivers == 2
NumThreads == 2
NumKeys == 2
NumValues == 1
MaxFinalizers == 1
MaxCalls == 2
NumListeners == 1
MaxInitialDelay == 2
MaxMaximumDelay == 2
MaxFactor == 2
MaxTimeout == 2
MaxDuration == 1
MaxStart == 1
MaxOversleep == 1
MaxAttempts == 4
NumSettings == 2
NumConfigs == 2
MaxInitializers == 2
NumTasks == 2
NumWorkers == 1
MaxExecutions == 2
MaxDisposals == 2

\* Python's None: the null key, the null value, "no owner", a dead weak
\* reference's referent.
None == 0

Receivers == 1..NumReceivers
Threads == 1..NumThreads
Keys == 1..NumKeys
Values == 1..NumValues

\* The thread of the single-caller specifications.
Main == CHOOSE t \in Threads : \A u \in Threads : t <= u

\* The two signal classes of sghi.registry; the dispatcher itself accepts any
\* subclass of Signal, and these two stand for "any two signal types".
SignalTypes == {"RegistryItemSet", "RegistryItemRemoved"}

RegistryItemSet(key, value) ==
    [type |-> "RegistryItemSet", item_key |-> key, item_value |-> value]

RegistryItemRemoved(key) ==
    [type |-> "RegistryItemRemoved", item_key |-> key, item_value |-> None]

\* An element of a signal type's set in _receivers: the receiver itself
\* (weak = FALSE) or a weakref.ref / weakref.WeakMethod to it (weak = TRUE).
\* Two weak references to one live receiver compare equal and hash alike, so
\* a set holds at most one of them; a receiver and a weak reference to it
\* never compare equal.
Entry == [rcv : Receivers, weak : BOOLEAN]

StrongEntry(r) == [rcv |-> r, weak |-> FALSE]
WeakEntry(r) == [rcv |-> r, weak |-> TRUE]

\* What a receiver's body does when it is called: return, raise an Exception
\* subclass, or raise a BaseException that is no Exception (KeyboardInterrupt,
\* SystemExit).
Outcomes == {"return", "Exception", "BaseException"}

\* What a listener of the registry's signals does: an interrupt or an exit
\* raised inside a listener ends the program rather than the registry call.
ListenerOutcomes == {"return", "Exception"}

VARIABLES
    receivers,            \* _DispatcherImp._receivers: signal type -> set of entries
    has_dead_receivers,   \* _DispatcherImp._has_dead_receivers
    lock,                 \* _DispatcherImp._lock: the owning thread, or None
    items,                \* _RegistryImp._items: key -> value
    alive,                \* receiver -> its object has not been collected
    referenced,           \* receiver -> the application still holds a reference
    finalizers,           \* receiver -> weakref.finalize callbacks not yet run
    pc,                   \* thread -> position
    frame,                \* thread -> the call the thread is in (or was last in)
    iterator,             \* thread -> the iterator its send() is walking
    current,              \* thread -> the receiver being called, or None
    result,               \* thread -> how its last call ended
    invoked,              \* thread -> receiver -> calls made by its current send
    emitted,              \* thread -> signals its current call passed to send()
    raised,               \* thread -> the errors receivers raised in its send
    observed,             \* thread -> what receivers saw in the registry
    before,               \* thread -> _items when its current call began
    disconnected,         \* <<signal type, receiver>>: disconnect has returned
                          \* for the pair and connect was not called since
    policy,               \* the _ExponentialBackOffRetry that was constructed
    now,                  \* datetime.now()
    retrying,             \* thread -> its call of the wrapper do_retry
    mappings,             \* dict objects: the caller's settings (0) and each
                          \* _ConfigImp's own _settings
    configs,              \* _ConfigImp instance -> its fields and construction
    proxy,                \* the ConfigProxy and its _source_config
    answer,               \* how the last operation on a config or proxy ended
    executor,             \* the ConcurrentExecutor that was constructed
    futures,              \* the Future objects of its pool, in submission order
    executing,            \* thread -> its call on the ConcurrentExecutor
    replica               \* a listener's own map of the registry's items

vars == <<receivers, has_dead_receivers, lock, items, alive, referenced,
          finalizers, pc, frame, iterator, current, result, invoked, emitted,
          raised, observed, before, disconnected, policy, now, retrying,
          mappings, configs, proxy, answer, executor, futures, executing,
          replica>>

dispatcherVars == <<receivers, has_dead_receivers, lock>>
runtimeVars == <<alive, referenced, finalizers>>
historyVars == <<invoked, emitted, raised, observed, before>>
retryVars == <<policy, now, retrying>>
configVars == <<mappings, configs, proxy, answer>>
executorVars == <<executor, futures, executing>>

\* The dispatcher and the registry as a whole, and the other components.
\* The map that a listener keeps of the registry belongs to both groups: an
\* action that leaves either alone leaves it alone.
signalVars == <<dispatcherVars, items, runtimeVars, pc, frame, iterator,
                current, result, historyVars, disconnected, replica>>
componentVars == <<retryVars, configVars, executorVars, replica>>

\* No listener keeps a map of the registry.
NoReplica == [listener |-> None, items |-> <<>>]

\* ----------------------------------------------------------- call records

NoSignal == [type |-> "none", item_key |-> None, item_value |-> None]

\* A signal of type s sent by the application itself.
AppSignal(s) == [type |-> s, item_key |-> None, item_value |-> None]

\* The call a thread is in: the operation, its arguments, the value it returns
\* when the send it makes returns, and what held when it began: for a send, the
\* receivers already dead, the entries and the dead entries its iterator was
\* given, and the receivers disconnected from its signal type; for a
\* disconnect, the entries of its signal type.  swept is the signal types
\* whose sets the loop of _clear_dead_receivers has been through, and changed
\* the receivers that a receiver called by this send has connected or
\* disconnected.
NoFrame ==
    [op |-> "none", signal_type |-> "none", receiver |-> None, weak |-> FALSE,
     robust |-> TRUE, signal |-> NoSignal, key |-> None, value |-> None,
     ret |-> None, dead |-> {}, unswept |-> {}, connected |-> {},
     disconnected |-> {}, swept |-> {}, changed |-> {}]

NoResult == [kind |-> "none", exc |-> "none", value |-> None]
Returned(v) == [kind |-> "returned", exc |-> "none", value |-> v]
Raised(e, v) == [kind |-> "raised", exc |-> e, value |-> v]

\* iter(set): real is FALSE for the fresh empty set that dict.get returns for a
\* signal type with no key; used is the set's size when the iterator was made
\* (setiterobject.si_used); todo are the entries it still has to yield;
\* snapshot is the set as the iterator last saw it.
NoIterator == [real |-> FALSE, used |-> 0, todo |-> {}, snapshot |-> {}]

NoEntry == [rcv |-> None, weak |-> FALSE]

\* The per-receiver call counts of a send that has called nothing yet.
NoCalls == [r \in Receivers |-> 0]

\* One more call of a receiver; the count saturates at MaxCalls.
Counted(n) == IF n < MaxCalls THEN n + 1 ELSE n

\* ---------------------------------------------------- dispatcher helpers

\* _DispatcherImp._dereference_as_necessary
DereferenceAsNecessary(e) ==
    IF e.weak THEN (IF alive[e.rcv] THEN e.rcv ELSE None) ELSE e.rcv

\* _DispatcherImp._is_dead
IsDead(e) == e.weak /\ DereferenceAsNecessary(e) = None

\* An _is_live that takes every dereferenced entry for a live receiver.
IsLiveAlways(target) == TRUE

\* _DispatcherImp._is_live
IsLive(target) == target # None

\* _DispatcherImp._is_weak
IsWeak(e) == e.weak

\* self._receivers.get(signal_type, set())
ReceiversOf(recv, s) == IF s \in DOMAIN recv THEN recv[s] ELSE {}

\* _DispatcherImp._clear_dead_receivers: the registration sets it leaves.  The
\* flag is FALSE when it returns, on either path.
ClearDeadReceivers(recv, flag) ==
    IF ~flag
    THEN recv
    ELSE [s \in DOMAIN recv |-> recv[s] \ {e \in recv[s] : IsDead(e)}]

\* self._receivers.setdefault(signal_type, set()).add(_receiver)
AddReceiver(recv, s, e) ==
    IF s \in DOMAIN recv
    THEN [recv EXCEPT ![s] = @ \cup {e}]
    ELSE recv @@ (s :> {e})

\* A disconnect that only discards the receiver itself and leaves the weak
\* references to it in the set.
RemoveStrongOnly(recv, s, r) ==
    IF s \in DOMAIN recv
    THEN [recv EXCEPT ![s] = @ \ {StrongEntry(r)}]
    ELSE recv

\* The body of disconnect after the sweep: receivers.discard(receiver), then
\* the weak entries whose referent equals receiver are taken out.  With no key
\* for signal_type both act on a fresh set and _receivers is left as it is.
RemoveReceiver(recv, s, r) ==
    IF s \in DOMAIN recv
    THEN LET discarded == recv[s] \ {StrongEntry(r)}
             weak_receivers ==
                 {e \in discarded : IsWeak(e) /\ DereferenceAsNecessary(e) = r}
         IN [recv EXCEPT ![s] = discarded \ weak_receivers]
    ELSE recv

\* except Exception: what robust delivery catches.
IsException(exc) == exc \in {"Exception", "TypeError"}

\* A send that re-raises whatever a receiver raises, robust or not.
PropagatesAlways(exc, robust) == TRUE

\* A send that catches every Exception, robust or not.
PropagatesUnlessCaught(exc, robust) == ~IsException(exc)

\* send()'s except clause: TRUE when the error leaves send.
Propagates(exc, robust) == ~(IsException(exc) /\ robust)

\* ----------------------------------------------------------- retry records

\* timeout=None, and the deadline_time None that _calculate_deadline_time
\* returns: time is counted in whole ticks from 0, so no time is negative.
NoTimeout == -1
NoDeadline == -1

Min(a, b) == IF a <= b THEN a ELSE b

\* No policy has been constructed.
NoPolicy ==
    [initial_delay |-> 0, maximum_delay |-> 0, timeout |-> NoTimeout,
     multiplicative_factor |-> 0]

\* The checks of _ExponentialBackOffRetry.__init__.
ValidPolicy(initial_delay, maximum_delay, multiplicative_factor) ==
    /\ initial_delay > 0
    /\ maximum_delay >= initial_delay
    /\ multiplicative_factor > 0

\* What the wrapped callable does when it is called: it returns, or it raises
\* a transient error, another Exception, or an error that is no Exception.
RetryOutcomes ==
    {"return", "SGHITransientError", "ValueError", "KeyboardInterrupt"}

\* except Exception in do_retry
CaughtForRetry(exp) == exp \in {"SGHITransientError", "ValueError"}

\* if_transient_exception, the default predicate
IfTransientException(exp) == exp = "SGHITransientError"

\* An error object: its type and the attempt that raised it.
NoError == [type |-> "none", attempt |-> 0]
ErrorOf(type, attempt) == [type |-> type, attempt |-> attempt]

\* How a call of the wrapper ended: it returned value, or it raised an error
\* of type exc, which is error itself or, for a RetryError, has error as its
\* cause.
NoRetryResult ==
    [kind |-> "none", value |-> None, exc |-> "none", error |-> NoError]
RetryReturned(v) == [NoRetryResult EXCEPT !.kind = "returned", !.value = v]
RetryRaised(exc, error) ==
    [NoRetryResult EXCEPT !.kind = "raised", !.exc = exc, !.error = error]

\* do_retry's locals and what is recorded of the call: start is the time it
\* began, generator the delay local to _exponential_delay_generator, delay the
\* loop variable, read the time _deliberate_next_retry read, outcome what the
\* last call of f did, began the time that call began; attempts, failures and
\* sleeps count the calls of f, its accepted errors and the calls of sleep.
NotRetrying ==
    [pc |-> "idle", start |-> 0, deadline_time |-> NoDeadline, generator |-> 0,
     delay |-> 0, read |-> 0, last_exp |-> NoError, outcome |-> NoRetryResult,
     began |-> 0, attempts |-> 0, failures |-> 0, sleeps |-> 0,
     result |-> NoRetryResult]

\* ---------------------------------------------------------- config records

\* The names of settings, and the _ConfigImp instances that are constructed.
Settings == 1..NumSettings
Configs == 1..NumConfigs

\* The dict objects: the mapping the caller passes to Config.of, and the
\* _settings dict of each _ConfigImp.
GivenSettings == 0
Mappings == {GivenSettings} \cup Configs

\* The _NotSetup instance that Config.of_awaiting_setup returns.
AwaitingSetup == NumConfigs + 1

\* The setting initializers that are passed to Config.of: one that supplies
\* a default for an absent setting, one that requires the setting, and one
\* that converts the value it is given.
InitializerTasks == {"default", "required", "convert"}
Initializers == [setting : Settings, task : InitializerTasks]

\* The value the "default" initializer supplies.
DefaultSetting == 1

\* How a call of an initializer, or an operation on a config, ends.
ConfigReturned(v) ==
    [kind |-> "returned", found |-> FALSE, value |-> v, exc |-> "none"]
ConfigFound(b) ==
    [kind |-> "returned", found |-> b, value |-> None, exc |-> "none"]
ConfigRaised(exc) ==
    [kind |-> "raised", found |-> FALSE, value |-> None, exc |-> exc]

\* A _ConfigImp that is not constructed yet.
NotConstructed ==
    [pc |-> "none", _settings |-> GivenSettings, given |-> <<>>, raw |-> <<>>,
     _initializers |-> <<>>, group |-> 0, position |-> 0, acc |-> None,
     ran |-> <<>>, exc |-> "none"]

NoProxy == [created |-> FALSE, _source_config |-> None]

NoAnswer ==
    [op |-> "none", via |-> "none", source |-> None, setting |-> None,
     default |-> None, outcome |-> ConfigRaised("none"), wrapped |-> None]

\* -------------------------------------------------------- executor records

Tasks == 1..NumTasks

\* _shutdown is the flag of the ThreadPoolExecutor in _executor; entered is
\* the threads inside a with block on the executor; executions and disposals
\* count the calls of execute and of dispose.
NoExecutor ==
    [created |-> FALSE, _wait_for_completion |-> FALSE, _is_disposed |-> FALSE,
     _shutdown |-> FALSE, entered |-> {}, executions |-> 0, disposals |-> 0]

\* The Future of a task that execute submitted with an_input, in its call
\* numbered execution.
Submitted(execution, task, an_input) ==
    [execution |-> execution, task |-> task, an_input |-> an_input,
     state |-> "pending", outcome |-> "none"]

\* A call on the executor that has not begun: op is the method called, and
\* warned that __enter__ gave its warning.
NotExecuting ==
    [pc |-> "idle", op |-> "none", execution |-> 0, an_input |-> None,
     next |-> 0, futures |-> <<>>, result |-> "none", warned |-> FALSE]

\* ------------------------------------------------------------- the start

Init ==
    /\ receivers = <<>>
    /\ has_dead_receivers = FALSE
    /\ lock = None
    /\ items = <<>>
    /\ alive = [r \in Receivers |-> TRUE]
    /\ referenced = [r \in Receivers |-> TRUE]
    /\ finalizers = [r \in Receivers |-> 0]
    /\ pc = [t \in Threads |-> "idle"]
    /\ frame = [t \in Threads |-> NoFrame]
    /\ iterator = [t \in Threads |-> NoIterator]
    /\ current = [t \in Threads |-> NoEntry]
    /\ result = [t \in Threads |-> NoResult]
    /\ invoked = [t \in Threads |-> NoCalls]
    /\ emitted = [t \in Threads |-> <<>>]
    /\ raised = [t \in Threads |-> {}]
    /\ observed = [t \in Threads |-> {}]
    /\ before = [t \in Threads |-> <<>>]
    /\ disconnected = {}
    /\ policy = NoPolicy
    /\ now = 0
    /\ retrying = [t \in Threads |-> NotRetrying]
    /\ mappings = [m \in Mappings |-> <<>>]
    /\ configs = [c \in Configs |-> NotConstructed]
    /\ proxy = NoProxy
    /\ answer = NoAnswer
    /\ executor = NoExecutor
    /\ futures = <<>>
    /\ executing = [t \in Threads |-> NotExecuting]
    /\ replica = NoReplica

\* A thread enters a call that takes further steps: what it recorded about its
\* last call is dropped.
Enter(t, f, position) ==
    /\ pc' = [pc EXCEPT ![t] = position]
    /\ frame' = [frame EXCEPT ![t] = f]
    /\ result' = [result EXCEPT ![t] = NoResult]
    /\ invoked' = [invoked EXCEPT ![t] = NoCalls]
    /\ raised' = [raised EXCEPT ![t] = {}]
    /\ observed' = [observed EXCEPT ![t] = {}]
    /\ before' = [before EXCEPT ![t] = items]
    /\ current' = [current EXCEPT ![t] = NoEntry]

\* A thread makes a call that ends in the same step, with res.
Call(t, f, res) ==
    /\ pc' = [pc EXCEPT ![t] = "done"]
    /\ frame' = [frame EXCEPT ![t] = f]
    /\ result' = [result EXCEPT ![t] = res]
    /\ invoked' = [invoked EXCEPT ![t] = NoCalls]
    /\ raised' = [raised EXCEPT ![t] = {}]
    /\ observed' = [observed EXCEPT ![t] = {}]
    /\ before' = [before EXCEPT ![t] = items]
    /\ emitted' = [emitted EXCEPT ![t] = <<>>]
    /\ UNCHANGED <<iterator, current>>

\* A thread's call ends with res.
Leave(t, res) ==
    /\ pc' = [pc EXCEPT ![t] = "done"]
    /\ result' = [result EXCEPT ![t] = res]
    /\ iterator' = [iterator EXCEPT ![t] = NoIterator]
    /\ current' = [current EXCEPT ![t] = NoEntry]

\* The caller takes the outcome of the call that has ended and goes on; what
\* was recorded about the call is dropped.
Return(t) ==
    /\ UNCHANGED componentVars
    /\ pc[t] = "done"
    /\ pc' = [pc EXCEPT ![t] = "idle"]
    /\ frame' = [frame EXCEPT ![t] = NoFrame]
    /\ result' = [result EXCEPT ![t] = NoResult]
    /\ invoked' = [invoked EXCEPT ![t] = NoCalls]
    /\ emitted' = [emitted EXCEPT ![t] = <<>>]
    /\ raised' = [raised EXCEPT ![t] = {}]
    /\ observed' = [observed EXCEPT ![t] = {}]
    /\ before' = [before EXCEPT ![t] = <<>>]
    /\ UNCHANGED <<dispatcherVars, items, runtimeVars, iterator, current,
                   disconnected>>

\* ------------------------------------------------------------ dispatcher

\* Dispatcher.connect, up to the sweep: the arguments are checked, the
\* finalizer is registered for a weak connection, the lock is taken and
\* _clear_dead_receivers is called, which returns at once when the flag is
\* down and goes through the sets otherwise.  r = None is the null receiver.
Connect(t, s, r, w) ==
    /\ UNCHANGED componentVars
    /\ pc[t] = "idle"
    /\ UNCHANGED <<items, alive, referenced>>
    /\ IF r = None
       THEN /\ Call(t, [NoFrame EXCEPT !.op = "connect", !.signal_type = s,
                                       !.weak = w],
                    Raised("ValueError", None))
            /\ UNCHANGED <<dispatcherVars, finalizers, disconnected>>
       ELSE /\ alive[r] /\ referenced[r]
            /\ lock = None
            /\ w => finalizers[r] < MaxFinalizers
            /\ finalizers' = IF w THEN [finalizers EXCEPT ![r] = @ + 1]
                                  ELSE finalizers
            /\ lock' = t
            /\ UNCHANGED <<receivers, has_dead_receivers>>
            /\ Enter(t, [NoFrame EXCEPT !.op = "connect", !.signal_type = s,
                                        !.receiver = r, !.weak = w],
                     IF has_dead_receivers THEN "sweep" ELSE "connect")
            /\ emitted' = [emitted EXCEPT ![t] = <<>>]
            /\ disconnected' = disconnected \ {<<s, r>>}
            /\ UNCHANGED iterator

\* A connect that stores a weak reference whatever weak is.
ConnectAddWeakly(t) ==
    /\ UNCHANGED componentVars
    /\ pc[t] = "connect"
    /\ receivers' = AddReceiver(receivers, frame[t].signal_type,
                                WeakEntry(frame[t].receiver))
    /\ lock' = None
    /\ Leave(t, Returned(None))
    /\ UNCHANGED <<has_dead_receivers, items, runtimeVars, frame, historyVars,
                   disconnected>>

\* Dispatcher.connect, the rest: the entry is added to the signal type's set
\* and the lock is released.
ConnectAdd(t) ==
    /\ UNCHANGED componentVars
    /\ pc[t] = "connect"
    /\ LET f == frame[t]
           _receiver == IF f.weak THEN WeakEntry(f.receiver)
                                  ELSE StrongEntry(f.receiver)
       IN receivers' = AddReceiver(receivers, f.signal_type, _receiver)
    /\ lock' = None
    /\ Leave(t, Returned(None))
    /\ UNCHANGED <<has_dead_receivers, items, runtimeVars, frame, historyVars,
                   disconnected>>

\* Dispatcher.disconnect.  With the flag down _clear_dead_receivers returns
\* at once and the call is one step under the lock; with the flag up the
\* call goes through the sets first.
Disconnect(t, s, r) ==
    /\ UNCHANGED componentVars
    /\ pc[t] = "idle"
    /\ UNCHANGED <<items, runtimeVars>>
    /\ IF r = None
       THEN /\ Call(t, [NoFrame EXCEPT !.op = "disconnect", !.signal_type = s],
                    Raised("ValueError", None))
            /\ UNCHANGED <<dispatcherVars, disconnected>>
       ELSE /\ alive[r] /\ referenced[r]
            /\ lock = None
            /\ IF has_dead_receivers
               THEN /\ lock' = t
                    /\ Enter(t, [NoFrame EXCEPT
                                    !.op = "disconnect", !.signal_type = s,
                                    !.receiver = r,
                                    !.connected = ReceiversOf(receivers, s)],
                             "sweep")
                    /\ emitted' = [emitted EXCEPT ![t] = <<>>]
                    /\ UNCHANGED <<receivers, has_dead_receivers, iterator,
                                   disconnected>>
               ELSE /\ receivers' =
                           RemoveReceiver(
                               ClearDeadReceivers(receivers,
                                                  has_dead_receivers), s, r)
                    /\ has_dead_receivers' = FALSE
                    /\ disconnected' = disconnected \cup {<<s, r>>}
                    /\ Call(t, [NoFrame EXCEPT
                                   !.op = "disconnect", !.signal_type = s,
                                   !.receiver = r,
                                   !.connected = ReceiversOf(receivers, s)],
                            Returned(None))
                    /\ UNCHANGED lock

\* The iterator that _live_receivers returns for a signal of signal_type:
\* map() and filter() take iter() of the signal type's set at once; the
\* entries themselves are dereferenced and filtered only as send() walks it.
IteratorOver(signal_type) ==
    LET _receivers == ReceiversOf(receivers, signal_type)
    IN [real |-> signal_type \in DOMAIN receivers,
        used |-> Cardinality(_receivers),
        todo |-> _receivers,
        snapshot |-> _receivers]

\* What the frame of a send records when its iterator is built.
Walking(f) ==
    LET _receivers == ReceiversOf(receivers, f.signal.type)
    IN [f EXCEPT !.dead = {r \in Receivers : ~alive[r]},
                 !.unswept = {e \in _receivers : IsDead(e)},
                 !.connected = _receivers,
                 !.disconnected =
                     {r \in Receivers : <<f.signal.type, r>> \in disconnected}]

\* _DispatcherImp._live_receivers as send() calls it from frame f.  With the
\* flag down _clear_dead_receivers returns at once, and the iterator over the
\* signal type's set is built in one step under the lock; with the flag up
\* the call goes through the sets first.
LiveReceivers(t, f, signal) ==
    /\ lock = None
    /\ IF has_dead_receivers
       THEN /\ lock' = t
            /\ Enter(t, [f EXCEPT !.signal = signal], "sweep")
            /\ UNCHANGED <<receivers, has_dead_receivers, iterator>>
       ELSE /\ receivers' = ClearDeadReceivers(receivers, has_dead_receivers)
            /\ has_dead_receivers' = FALSE
            /\ iterator' = [iterator EXCEPT ![t] = IteratorOver(signal.type)]
            /\ Enter(t, Walking([f EXCEPT !.signal = signal]), "send")
            /\ UNCHANGED lock
    /\ emitted' = [emitted EXCEPT ![t] = <<signal>>]
    /\ UNCHANGED <<runtimeVars, disconnected>>

\* One turn of the loop of _clear_dead_receivers, made by the thread that
\* holds the lock: the entries of one signal type's set that are dead now are
\* taken out of it.
ClearDeadReceiversOf(t, s) ==
    /\ UNCHANGED componentVars
    /\ pc[t] = "sweep"
    /\ s \in DOMAIN receivers \ frame[t].swept
    /\ receivers' = [receivers EXCEPT
                        ![s] = ClearDeadReceivers(receivers, TRUE)[s]]
    /\ frame' = [frame EXCEPT ![t].swept = @ \cup {s}]
    /\ UNCHANGED <<has_dead_receivers, lock, items, runtimeVars, pc, iterator,
                   current, result, historyVars, disconnected>>

\* The loop of _clear_dead_receivers is over: self._has_dead_receivers =
\* False, whatever happened to the flag during the loop, and the call that
\* made the sweep goes on: connect to the adding of its entry, disconnect to
\* the removal and its return, _live_receivers to the iterator it returns.
ClearDeadReceiversDone(t) ==
    /\ UNCHANGED componentVars
    /\ pc[t] = "sweep"
    /\ frame[t].swept = DOMAIN receivers
    /\ has_dead_receivers' = FALSE
    /\ LET f == frame[t]
       IN IF f.op = "connect"
          THEN /\ pc' = [pc EXCEPT ![t] = "connect"]
               /\ UNCHANGED <<receivers, lock, frame, iterator, current,
                              result, disconnected>>
          ELSE IF f.op = "disconnect"
          THEN /\ receivers' =
                      RemoveReceiver(receivers, f.signal_type, f.receiver)
               /\ lock' = None
               /\ disconnected' =
                      disconnected \cup {<<f.signal_type, f.receiver>>}
               /\ Leave(t, Returned(None))
               /\ UNCHANGED frame
          ELSE /\ iterator' = [iterator EXCEPT ![t] =
                      IteratorOver(f.signal.type)]
               /\ frame' = [frame EXCEPT ![t] = Walking(f)]
               /\ pc' = [pc EXCEPT ![t] = "send"]
               /\ lock' = None
               /\ UNCHANGED <<receivers, current, result, disconnected>>
    /\ UNCHANGED <<items, runtimeVars, historyVars>>

\* Dispatcher.send, called by the application.
Send(t, s, robust) ==
    /\ UNCHANGED componentVars
    /\ pc[t] = "idle"
    /\ LiveReceivers(t, [NoFrame EXCEPT !.op = "send", !.signal_type = s,
                                        !.robust = robust],
                     AppSignal(s))
    /\ UNCHANGED items

\* The entries the iterator may still yield.  A set iterator walks the hash
\* table by position: while the set is as it was, these are the entries not
\* yet yielded; once the set has been changed (at the same size, or the
\* iterator would have raised) the table may have been rebuilt, and which of its
\* entries lie ahead of the iterator's position is not determined.
Ahead(it, _receivers) ==
    IF ~it.real \/ _receivers = it.snapshot
    THEN {it.todo}
    ELSE SUBSET _receivers

\* One turn of send()'s for loop, up to the call of the receiver: next() on the
\* iterator raises RuntimeError if the set's size has changed, ends the loop
\* when nothing is left, and otherwise yields an entry, which is dereferenced
\* and passed on to be called unless it is dead.
SendNext(t) ==
    /\ UNCHANGED componentVars
    /\ pc[t] = "send"
    /\ LET f == frame[t]
           it == iterator[t]
           _receivers == ReceiversOf(receivers, f.signal.type)
       IN IF it.real /\ Cardinality(_receivers) # it.used
          THEN /\ Leave(t, Raised("RuntimeError", None))
          ELSE \E todo \in Ahead(it, _receivers) :
                  IF todo = {}
                  THEN Leave(t, Returned(f.ret))
                  ELSE \E e \in todo :
                          /\ iterator' = [iterator EXCEPT ![t] =
                                 [it EXCEPT !.todo = todo \ {e},
                                            !.snapshot = _receivers]]
                          /\ IF IsLive(DereferenceAsNecessary(e))
                             THEN /\ pc' = [pc EXCEPT ![t] = "call"]
                                  /\ current' = [current EXCEPT ![t] = e]
                             ELSE UNCHANGED <<pc, current>>
                          /\ UNCHANGED result
    /\ UNCHANGED <<dispatcherVars, items, runtimeVars, frame, historyVars,
                   disconnected>>

\* What a receiver that looks key up in the registry finds.
Lookup(key) ==
    [present |-> key \in DOMAIN items,
     value |-> IF key \in DOMAIN items THEN items[key] ELSE None]

\* What a map of the registry becomes when signal is applied to it.
Applied(d, signal) ==
    IF signal.type = "RegistryItemSet"
    THEN IF signal.item_key \in DOMAIN d
         THEN [d EXCEPT ![signal.item_key] = signal.item_value]
         ELSE d @@ (signal.item_key :> signal.item_value)
    ELSE IF signal.type = "RegistryItemRemoved"
    THEN [k \in DOMAIN d \ {signal.item_key} |-> d[k]]
    ELSE d

\* The rest of the turn: receiver(signal) inside send()'s try.  The receiver
\* does what outcome says (calling None raises TypeError); an error either is
\* caught and logged, and the loop goes on, or leaves send.  The listener
\* that keeps a map of the registry applies the signal to it first.
ReceiverCall(t, outcome) ==
    /\ UNCHANGED <<retryVars, configVars, executorVars>>
    /\ pc[t] = "call"
    /\ replica' = IF current[t].rcv = replica.listener
                  THEN [replica EXCEPT !.items = Applied(@, frame[t].signal)]
                  ELSE replica
    /\ LET f == frame[t]
           e == current[t]
           exc == IF DereferenceAsNecessary(e) = None THEN "TypeError"
                                                      ELSE outcome
       IN /\ invoked' = [invoked EXCEPT ![t][e.rcv] = Counted(@)]
          /\ raised' = [raised EXCEPT ![t] =
                 IF exc = "return" THEN @
                                   ELSE @ \cup {[rcv |-> e.rcv, exc |-> exc]}]
          /\ observed' = [observed EXCEPT ![t] =
                 IF f.signal.item_key = None
                 THEN @
                 ELSE @ \cup {[signal |-> f.signal,
                               found |-> Lookup(f.signal.item_key)]}]
          /\ IF exc = "return" \/ ~Propagates(exc, f.robust)
             THEN /\ pc' = [pc EXCEPT ![t] = "send"]
                  /\ current' = [current EXCEPT ![t] = NoEntry]
                  /\ UNCHANGED <<result, iterator>>
             ELSE Leave(t, Raised(exc, None))
    /\ UNCHANGED <<dispatcherVars, items, runtimeVars, frame, emitted, before,
                   disconnected>>

\* The receiver that the send of thread t is calling calls connect(S, r,
\* weak=w) on the same dispatcher, S being the type of the signal delivered.
\* send() holds no lock while it walks the set, so the nested call takes the
\* lock, sweeps, adds its entry and returns to the receiver.
ReceiverConnects(t, r, w) ==
    /\ UNCHANGED componentVars
    /\ pc[t] = "call"
    /\ alive[r] /\ referenced[r]
    /\ lock = None
    /\ w => finalizers[r] < MaxFinalizers
    /\ finalizers' = IF w THEN [finalizers EXCEPT ![r] = @ + 1]
                          ELSE finalizers
    /\ receivers' =
           AddReceiver(ClearDeadReceivers(receivers, has_dead_receivers),
                       frame[t].signal.type,
                       IF w THEN WeakEntry(r) ELSE StrongEntry(r))
    /\ has_dead_receivers' = FALSE
    /\ disconnected' = disconnected \ {<<frame[t].signal.type, r>>}
    /\ frame' = [frame EXCEPT ![t].changed = @ \cup {r}]
    /\ UNCHANGED <<lock, items, alive, referenced, pc, iterator, current,
                   result, historyVars>>

\* The receiver that the send of thread t is calling calls disconnect(S, r)
\* on the same dispatcher, S being the type of the signal delivered.
ReceiverDisconnects(t, r) ==
    /\ UNCHANGED componentVars
    /\ pc[t] = "call"
    /\ alive[r] /\ referenced[r]
    /\ lock = None
    /\ receivers' =
           RemoveReceiver(ClearDeadReceivers(receivers, has_dead_receivers),
                          frame[t].signal.type, r)
    /\ has_dead_receivers' = FALSE
    /\ disconnected' = disconnected \cup {<<frame[t].signal.type, r>>}
    /\ frame' = [frame EXCEPT ![t].changed = @ \cup {r}]
    /\ UNCHANGED <<lock, items, runtimeVars, pc, iterator, current, result,
                   historyVars>>

\* ---------------------------------------------------- the Python runtime

\* A thread holds receiver r in a running call: as the argument of connect or
\* disconnect, or as the dereferenced receiver that send() is calling.
Held(r) ==
    \E t \in Threads :
        \/ pc[t] \in {"connect", "sweep"} /\ frame[t].receiver = r
        \/ pc[t] = "call" /\ current[t].rcv = r

\* Some signal type's set holds r itself (weak=False).
StronglyConnected(r) ==
    \E s \in DOMAIN receivers : StrongEntry(r) \in receivers[s]

\* Application code on thread t (between calls, or in a receiver's body) drops
\* the application's last reference to receiver r.
DropReference(t, r) ==
    /\ UNCHANGED componentVars
    /\ pc[t] \in {"idle", "call"}
    /\ referenced[r]
    /\ referenced' = [referenced EXCEPT ![r] = FALSE]
    /\ UNCHANGED <<dispatcherVars, items, alive, finalizers, pc, frame,
                   iterator, current, result, historyVars, disconnected>>

\* The runtime collects receiver r, to which no strong reference is left:
\* every weak reference to it is cleared.  Its finalizers run afterwards.
Collect(r) ==
    /\ UNCHANGED componentVars
    /\ alive[r]
    /\ ~referenced[r]
    /\ ~StronglyConnected(r)
    /\ ~Held(r)
    /\ alive' = [alive EXCEPT ![r] = FALSE]
    /\ UNCHANGED <<dispatcherVars, items, referenced, finalizers, pc, frame,
                   iterator, current, result, historyVars, disconnected>>

\* _DispatcherImp._mark_dead_receiver_present, run on thread t as one of the
\* finalizers of the collected receiver r.  The lock is reentrant: t may be
\* inside connect.
MarkDeadReceiverPresent(t, r) ==
    /\ UNCHANGED componentVars
    /\ ~alive[r]
    /\ finalizers[r] > 0
    /\ lock \in {None, t}
    /\ finalizers' = [finalizers EXCEPT ![r] = @ - 1]
    /\ has_dead_receivers' = TRUE
    /\ UNCHANGED <<receivers, lock, items, alive, referenced, pc, frame,
                   iterator, current, result, historyVars, disconnected>>

\* --------------------------------------------------------------- registry

\* self._items[key] = value
StoreItem(d, key, value) ==
    IF key \in DOMAIN d THEN [d EXCEPT ![key] = value] ELSE d @@ (key :> value)

\* del self._items[key] and self._items.pop(key), for a key that is there
DeleteItem(d, key) == [k \in DOMAIN d \ {key} |-> d[k]]

RegistryFrame(op, key, value) ==
    [NoFrame EXCEPT !.op = op, !.key = key, !.value = value]

\* An operation without the check of its key: a None key is let through and
\* the operation returns None.
AcceptKey(t, op, value) ==
    /\ Call(t, RegistryFrame(op, None, value), Returned(None))
    /\ UNCHANGED <<dispatcherVars, items, runtimeVars, disconnected>>

\* ensure_not_none(key, "'key' MUST not be None.") failing in operation op.
RejectKey(t, op, value) ==
    /\ Call(t, RegistryFrame(op, None, value), Raised("ValueError", None))
    /\ UNCHANGED <<dispatcherVars, items, runtimeVars, disconnected>>

\* An operation that ends with res without touching _items or the dispatcher.
Answer(t, op, key, value, res) ==
    /\ Call(t, RegistryFrame(op, key, value), res)
    /\ UNCHANGED <<dispatcherVars, items, runtimeVars, disconnected>>

\* An operation that sends its signal first and changes _items afterwards: the
\* receivers run against the registry as it was.
EmitBeforeChange(t, op, key, value, ret, d, signal) ==
    /\ items' = items
    /\ LiveReceivers(t, [RegistryFrame(op, key, value) EXCEPT !.ret = ret],
                     signal)

\* self._dispatcher.send(signal), robust by default, made by operation op once
\* it has changed _items to d; the operation returns ret when send returns.
Emit(t, op, key, value, ret, d, signal) ==
    /\ items' = d
    /\ LiveReceivers(t, [RegistryFrame(op, key, value) EXCEPT !.ret = ret],
                     signal)

\* _RegistryImp.__contains__
Contains(t, key) ==
    /\ UNCHANGED componentVars
    /\ pc[t] = "idle"
    /\ Answer(t, "contains", key, None, Returned(key \in DOMAIN items))

\* _RegistryImp.__getitem__
GetItem(t, key) ==
    /\ UNCHANGED componentVars
    /\ pc[t] = "idle"
    /\ IF key = None
       THEN RejectKey(t, "getitem", None)
       ELSE Answer(t, "getitem", key, None,
                   IF key \in DOMAIN items
                   THEN Returned(items[key])
                   ELSE Raised("NoSuchRegistryItemError", key))

\* _RegistryImp.get
Get(t, key, default) ==
    /\ UNCHANGED componentVars
    /\ pc[t] = "idle"
    /\ IF key = None
       THEN RejectKey(t, "get", default)
       ELSE Answer(t, "get", key, default,
                   Returned(IF key \in DOMAIN items THEN items[key]
                                                    ELSE default))

\* A __setitem__ that stores the value and sends no signal.
SetItemSilently(t, key, value) ==
    /\ UNCHANGED componentVars
    /\ pc[t] = "idle"
    /\ IF key = None
       THEN RejectKey(t, "setitem", value)
       ELSE /\ items' = StoreItem(items, key, value)
            /\ Call(t, RegistryFrame("setitem", key, value), Returned(None))
            /\ UNCHANGED <<dispatcherVars, runtimeVars, disconnected>>

\* _RegistryImp.__setitem__
SetItem(t, key, value) ==
    /\ UNCHANGED componentVars
    /\ pc[t] = "idle"
    /\ IF key = None
       THEN RejectKey(t, "setitem", value)
       ELSE Emit(t, "setitem", key, value, None,
                 StoreItem(items, key, value), RegistryItemSet(key, value))

\* A __delitem__ that takes a missing key for deleted already.
DelItemIfPresent(t, key) ==
    /\ UNCHANGED componentVars
    /\ pc[t] = "idle"
    /\ IF key = None
       THEN RejectKey(t, "delitem", None)
       ELSE IF key \in DOMAIN items
            THEN Emit(t, "delitem", key, None, None,
                      DeleteItem(items, key), RegistryItemRemoved(key))
            ELSE Answer(t, "delitem", key, None, Returned(None))

\* _RegistryImp.__delitem__
DelItem(t, key) ==
    /\ UNCHANGED componentVars
    /\ pc[t] = "idle"
    /\ IF key = None
       THEN RejectKey(t, "delitem", None)
       ELSE IF key \in DOMAIN items
            THEN Emit(t, "delitem", key, None, None,
                      DeleteItem(items, key), RegistryItemRemoved(key))
            ELSE Answer(t, "delitem", key, None,
                        Raised("NoSuchRegistryItemError", key))

\* A pop whose send is outside the try: the signal goes out for a missing key
\* too.
PopAlwaysSignals(t, key, default) ==
    /\ UNCHANGED componentVars
    /\ pc[t] = "idle"
    /\ IF key = None
       THEN RejectKey(t, "pop", default)
       ELSE Emit(t, "pop", key, default,
                 IF key \in DOMAIN items THEN items[key] ELSE default,
                 DeleteItem(items, key), RegistryItemRemoved(key))

\* _RegistryImp.pop
Pop(t, key, default) ==
    /\ UNCHANGED componentVars
    /\ pc[t] = "idle"
    /\ IF key = None
       THEN RejectKey(t, "pop", default)
       ELSE IF key \in DOMAIN items
            THEN Emit(t, "pop", key, default, items[key],
                      DeleteItem(items, key), RegistryItemRemoved(key))
            ELSE Answer(t, "pop", key, default, Returned(default))

\* A setdefault that stores value whether or not the key is there.
SetDefaultOverwrites(t, key, value) ==
    /\ UNCHANGED componentVars
    /\ pc[t] = "idle"
    /\ IF key = None
       THEN RejectKey(t, "setdefault", value)
       ELSE Emit(t, "setdefault", key, value, value,
                 StoreItem(items, key, value), RegistryItemSet(key, value))

\* _RegistryImp.setdefault: self[key], and on LookupError self[key] = value.
\* The lookup and the store are one step here, which is how a single caller
\* sees them; SetDefaultLookup and SetDefaultStore take them one by one.
SetDefault(t, key, value) ==
    /\ UNCHANGED componentVars
    /\ pc[t] = "idle"
    /\ IF key = None
       THEN RejectKey(t, "setdefault", value)
       ELSE IF key \in DOMAIN items
            THEN Answer(t, "setdefault", key, value, Returned(items[key]))
            ELSE Emit(t, "setdefault", key, value, value,
                      StoreItem(items, key, value),
                      RegistryItemSet(key, value))

\* _RegistryImp.setdefault up to the end of its try: the key is checked and
\* self[key] is returned, or __getitem__ raises NoSuchRegistryItemError, a
\* LookupError, and the call goes on to the except clause.
SetDefaultLookup(t, key, value) ==
    /\ UNCHANGED componentVars
    /\ pc[t] = "idle"
    /\ IF key = None
       THEN RejectKey(t, "setdefault", value)
       ELSE IF key \in DOMAIN items
            THEN Answer(t, "setdefault", key, value, Returned(items[key]))
            ELSE /\ Enter(t, RegistryFrame("setdefault", key, value),
                          "setdefault")
                 /\ emitted' = [emitted EXCEPT ![t] = <<>>]
                 /\ UNCHANGED <<dispatcherVars, items, runtimeVars, iterator,
                                disconnected>>

\* The except clause of _RegistryImp.setdefault: self[key] = value, which
\* stores the value and sends RegistryItemSet, and return value.
SetDefaultStore(t) ==
    /\ UNCHANGED componentVars
    /\ pc[t] = "setdefault"
    /\ Emit(t, "setdefault", frame[t].key, frame[t].value, frame[t].value,
            StoreItem(items, frame[t].key, frame[t].value),
            RegistryItemSet(frame[t].key, frame[t].value))

\* ------------------------------------------------------------------ retry

\* The clock is followed up to MaxTime, which no deadline reaches.
MaxTime == MaxStart + MaxTimeout + 1
Later(time, duration) == Min(time + duration, MaxTime)

\* One more, counted up to MaxAttempts.
Tallied(n) == IF n < MaxAttempts THEN n + 1 ELSE n

\* _ExponentialBackOffRetry._calculate_deadline_time:
\* now() + timedelta(seconds=timeout) if timeout else None
CalculateDeadlineTime(timeout, time) ==
    IF timeout # NoTimeout /\ timeout # 0 THEN time + timeout ELSE NoDeadline

\* min(random.uniform(0.0, delay * 2.0), self._maximum_delay), in whole ticks
Yielded(delay) == 0..Min(delay * 2, policy.maximum_delay)

\* delay *= self._multiplicative_factor.  The delay is kept up to
\* maximum_delay: from there on the generator yields from 0..maximum_delay
\* whatever the delay is.
Multiplied(delay) ==
    Min(delay * policy.multiplicative_factor, policy.maximum_delay)

\* A _deliberate_next_retry that returns the generator's delay as it is.
UnadjustedDelay(next_delay_duration, deadline_time, time) ==
    next_delay_duration

\* _deliberate_next_retry when it returns: the delay to sleep.
AdjustedDelay(next_delay_duration, deadline_time, time) ==
    IF deadline_time = NoDeadline
    THEN next_delay_duration
    ELSE Min(deadline_time - time, next_delay_duration)

\* Retry.of_exponential_backoff with the default predicate.
OfExponentialBackoff(initial_delay, maximum_delay, timeout, multiplicative_factor) ==
    /\ policy = NoPolicy
    /\ ValidPolicy(initial_delay, maximum_delay, multiplicative_factor)
    /\ policy' = [initial_delay |-> initial_delay,
                  maximum_delay |-> maximum_delay,
                  timeout |-> timeout,
                  multiplicative_factor |-> multiplicative_factor]
    /\ UNCHANGED <<now, retrying, signalVars, configVars, executorVars>>

\* do_retry is called: the deadline is computed and the generator made.
DoRetry(t) ==
    /\ policy # NoPolicy
    /\ retrying[t].pc \in {"idle", "done"}
    /\ now <= MaxStart
    /\ retrying' = [retrying EXCEPT ![t] =
           [NotRetrying EXCEPT
               !.pc = "loop",
               !.start = now,
               !.deadline_time = CalculateDeadlineTime(policy.timeout, now),
               !.generator = policy.initial_delay]]
    /\ UNCHANGED <<policy, now, signalVars, configVars, executorVars>>

\* A do_retry that retries whatever Exception f raises.
AttemptRetryingAll(t, yielded, outcome, duration, value) ==
    LET r == retrying[t]
        exp == ErrorOf(outcome, Tallied(r.attempts))
        attempted ==
            [r EXCEPT !.delay = yielded,
                      !.generator = Multiplied(r.generator),
                      !.began = now,
                      !.attempts = Tallied(r.attempts)]
    IN /\ r.pc = "loop"
       /\ yielded \in Yielded(r.generator)
       /\ now' = Later(now, duration)
       /\ retrying' = [retrying EXCEPT ![t] =
              IF outcome = "return"
              THEN [attempted EXCEPT !.pc = "done",
                                     !.outcome = RetryReturned(value),
                                     !.result = RetryReturned(value)]
              ELSE IF ~CaughtForRetry(outcome)
              THEN [attempted EXCEPT !.pc = "done",
                                     !.outcome = RetryRaised(outcome, exp),
                                     !.result = RetryRaised(outcome, exp)]
              ELSE [attempted EXCEPT !.pc = "deliberate",
                                     !.outcome = RetryRaised(outcome, exp),
                                     !.last_exp = exp,
                                     !.failures = Tallied(r.failures)]]
       /\ UNCHANGED <<policy, signalVars, configVars, executorVars>>

\* One turn of do_retry's loop up to the end of the try: the generator yields
\* the next delay and f is called, taking duration.  f returns value, or it
\* raises: an error that is no Exception or that the predicate rejects leaves
\* do_retry as it is, another becomes last_exp.
Attempt(t, yielded, outcome, duration, value) ==
    LET r == retrying[t]
        exp == ErrorOf(outcome, Tallied(r.attempts))
        attempted ==
            [r EXCEPT !.delay = yielded,
                      !.generator = Multiplied(r.generator),
                      !.began = now,
                      !.attempts = Tallied(r.attempts)]
    IN /\ r.pc = "loop"
       /\ yielded \in Yielded(r.generator)
       /\ now' = Later(now, duration)
       /\ retrying' = [retrying EXCEPT ![t] =
              IF outcome = "return"
              THEN [attempted EXCEPT !.pc = "done",
                                     !.outcome = RetryReturned(value),
                                     !.result = RetryReturned(value)]
              ELSE IF ~CaughtForRetry(outcome)
                      \/ ~IfTransientException(outcome)
              THEN [attempted EXCEPT !.pc = "done",
                                     !.outcome = RetryRaised(outcome, exp),
                                     !.result = RetryRaised(outcome, exp)]
              ELSE [attempted EXCEPT !.pc = "deliberate",
                                     !.outcome = RetryRaised(outcome, exp),
                                     !.last_exp = exp,
                                     !.failures = Tallied(r.failures)]]
       /\ UNCHANGED <<policy, signalVars, configVars, executorVars>>

\* A do_retry that calls f again at once, without time.sleep(delay).
DeliberateWithoutSleep(t) ==
    LET r == retrying[t]
    IN /\ r.pc = "deliberate"
       /\ retrying' = [retrying EXCEPT ![t] =
              IF r.deadline_time # NoDeadline /\ now > r.deadline_time
              THEN [r EXCEPT !.pc = "done", !.read = now,
                             !.result = RetryRaised("RetryError", r.last_exp)]
              ELSE [r EXCEPT !.pc = "loop", !.read = now]]
       /\ UNCHANGED <<policy, now, signalVars, configVars, executorVars>>

\* self._deliberate_next_retry(...): with the deadline passed it raises
\* RetryError from last_exp, otherwise it returns the delay to sleep.
DeliberateNextRetry(t) ==
    LET r == retrying[t]
    IN /\ r.pc = "deliberate"
       /\ retrying' = [retrying EXCEPT ![t] =
              IF r.deadline_time # NoDeadline /\ now > r.deadline_time
              THEN [r EXCEPT !.pc = "done", !.read = now,
                             !.result = RetryRaised("RetryError", r.last_exp)]
              ELSE [r EXCEPT !.pc = "sleep", !.read = now,
                             !.delay = AdjustedDelay(r.delay, r.deadline_time,
                                                     now)]]
       /\ UNCHANGED <<policy, now, signalVars, configVars, executorVars>>

\* time.sleep(delay), and back to the head of the loop.  The thread is
\* suspended for delay at least: it runs again oversleep later than it asked.
Sleep(t, oversleep) ==
    LET r == retrying[t]
    IN /\ r.pc = "sleep"
       /\ now' = Later(now, r.delay + oversleep)
       /\ retrying' = [retrying EXCEPT ![t] =
              [r EXCEPT !.pc = "loop", !.sleeps = Tallied(r.sleeps)]]
       /\ UNCHANGED <<policy, signalVars, configVars, executorVars>>

\* ----------------------------------------------------------------- config

\* dict.get(key, default)
DictGet(d, key, default) == IF key \in DOMAIN d THEN d[key] ELSE default

\* initializer.execute(an_input) of the three initializers.
ExecuteInitializer(task, an_input) ==
    IF task = "default"
    THEN ConfigReturned(IF an_input = None THEN DefaultSetting ELSE an_input)
    ELSE IF task = "required"
    THEN IF an_input = None
         THEN ConfigRaised("SettingRequiredError")
         ELSE ConfigReturned(an_input)
    ELSE IF an_input = None
         THEN ConfigRaised("ImproperlyConfiguredError")
         ELSE ConfigReturned(an_input + NumValues)

\* A grouping that puts each initializer in front of its group.
PrependedToGroup(grouped_initializers, setting, index) ==
    LET at == {g \in 1..Len(grouped_initializers) :
                   grouped_initializers[g].setting = setting}
    IN IF at = {}
       THEN Append(grouped_initializers,
                   [setting |-> setting, members |-> <<index>>])
       ELSE [g \in 1..Len(grouped_initializers) |->
                IF g \in at
                THEN [grouped_initializers[g] EXCEPT
                         !.members = <<index>> \o @]
                ELSE grouped_initializers[g]]

\* grouped_initializers.setdefault(_initializer.setting, []).append(
\* _initializer): the groups are kept in the order their settings were first
\* met (a dict keeps insertion order), the members in the order met.
AppendedToGroup(grouped_initializers, setting, index) ==
    LET at == {g \in 1..Len(grouped_initializers) :
                   grouped_initializers[g].setting = setting}
    IN IF at = {}
       THEN Append(grouped_initializers,
                   [setting |-> setting, members |-> <<index>>])
       ELSE [g \in 1..Len(grouped_initializers) |->
                IF g \in at
                THEN [grouped_initializers[g] EXCEPT
                         !.members = Append(@, index)]
                ELSE grouped_initializers[g]]

\* _ConfigImp._group_related_initializers, from the i-th initializer on.
RECURSIVE GroupRelatedInitializers(_, _, _)
GroupRelatedInitializers(initializers, i, grouped_initializers) ==
    IF i > Len(initializers)
    THEN grouped_initializers
    ELSE GroupRelatedInitializers(initializers, i + 1,
             AppendedToGroup(grouped_initializers, initializers[i].setting, i))

\* A _ConfigImp that keeps the mapping it was given as its _settings.
SameSettings(c) == GivenSettings

\* self._settings = dict(settings or {}): a dict of the instance's own.
OwnSettings(c) == c

\* The caller changes the mapping that is passed to Config.of: it sets a
\* setting, or with None removes it.
ChangeSettings(setting, value) ==
    /\ mappings' = [mappings EXCEPT ![GivenSettings] =
           IF value = None
           THEN DeleteItem(@, setting)
           ELSE StoreItem(@, setting, value)]
    /\ UNCHANGED <<configs, proxy, answer, signalVars, retryVars,
                   executorVars>>

\* Config.of(settings, initializers, skip_registered_initializers=True), up
\* to the first call of an initializer: the settings are copied, the
\* initializers grouped, and the raw value of the first group's setting read.
Construct(c, initializers) ==
    LET own == OwnSettings(c)
        copied == [mappings EXCEPT ![own] = mappings[GivenSettings]]
        grouped == GroupRelatedInitializers(initializers, 1, <<>>)
    IN /\ configs[c].pc = "none"
       /\ mappings' = copied
       /\ configs' = [configs EXCEPT ![c] =
              IF grouped = <<>>
              THEN [NotConstructed EXCEPT
                       !.pc = "ready", !._settings = own,
                       !.raw = mappings[GivenSettings]]
              ELSE [NotConstructed EXCEPT
                       !.pc = "run", !._settings = own,
                       !.given = initializers,
                       !.raw = mappings[GivenSettings],
                       !._initializers = grouped,
                       !.group = 1, !.position = 1,
                       !.acc = DictGet(copied[own], grouped[1].setting,
                                       None)]]
       /\ UNCHANGED <<proxy, answer, signalVars, retryVars, executorVars>>

\* _run_initializers: one call of an initializer by the pipe of its group.
\* An error it raises leaves the constructor.  After the last of a group the
\* output is stored as the setting's value and the next group's raw value is
\* read; after the last group the constructor returns.
RunInitializer(c) ==
    LET k == configs[c]
        g == k._initializers[k.group]
        index == g.members[k.position]
        out == ExecuteInitializer(k.given[index].task, k.acc)
        called == [k EXCEPT !.ran = Append(@, [index |-> index,
                                               an_input |-> k.acc])]
        stored == StoreItem(mappings[k._settings], g.setting, out.value)
    IN /\ k.pc = "run"
       /\ IF out.kind = "raised"
          THEN /\ configs' = [configs EXCEPT ![c] =
                      [called EXCEPT !.pc = "failed", !.exc = out.exc]]
               /\ UNCHANGED mappings
          ELSE IF k.position < Len(g.members)
          THEN /\ configs' = [configs EXCEPT ![c] =
                      [called EXCEPT !.position = @ + 1, !.acc = out.value]]
               /\ UNCHANGED mappings
          ELSE /\ mappings' = [mappings EXCEPT ![k._settings] = stored]
               /\ configs' = [configs EXCEPT ![c] =
                      IF k.group < Len(k._initializers)
                      THEN [called EXCEPT
                               !.group = @ + 1, !.position = 1,
                               !.acc = DictGet(stored,
                                   k._initializers[k.group + 1].setting,
                                   None)]
                      ELSE [called EXCEPT !.pc = "ready", !.acc = None]]
       /\ UNCHANGED <<proxy, answer, signalVars, retryVars, executorVars>>

\* The _settings of a constructed config.
SettingsOf(source) == mappings[configs[source]._settings]

\* __contains__ of a _ConfigImp, or of the _NotSetup instance.
SettingsContains(source, setting) ==
    IF source = AwaitingSetup
    THEN ConfigRaised("NotSetupError")
    ELSE ConfigFound(setting \in DOMAIN SettingsOf(source))

\* __getattr__ of a _ConfigImp, or of the _NotSetup instance.
SettingsGetAttr(source, setting) ==
    IF source = AwaitingSetup
    THEN ConfigRaised("NotSetupError")
    ELSE IF setting \in DOMAIN SettingsOf(source)
    THEN ConfigReturned(SettingsOf(source)[setting])
    ELSE ConfigRaised("NoSuchSettingError")

\* get of a _ConfigImp, or of the _NotSetup instance.
SettingsGet(source, setting, default) ==
    IF source = AwaitingSetup
    THEN ConfigRaised("NotSetupError")
    ELSE ConfigReturned(DictGet(SettingsOf(source), setting, default))

\* The record of an operation: through the proxy or on the config itself,
\* with the instance the proxy wrapped when the operation began.
Answered(via, op, source, setting, default, outcome) ==
    [op |-> op, via |-> via, source |-> source, setting |-> setting,
     default |-> default, outcome |-> outcome,
     wrapped |-> proxy._source_config]

\* setting in config
ConfigContains(c, setting) ==
    /\ configs[c].pc = "ready"
    /\ answer' = Answered("config", "contains", c, setting, None,
                          SettingsContains(c, setting))
    /\ UNCHANGED <<mappings, configs, proxy, signalVars, retryVars,
                   executorVars>>

\* config.SETTING
ConfigGetAttr(c, setting) ==
    /\ configs[c].pc = "ready"
    /\ answer' = Answered("config", "getattr", c, setting, None,
                          SettingsGetAttr(c, setting))
    /\ UNCHANGED <<mappings, configs, proxy, signalVars, retryVars,
                   executorVars>>

\* config.get(setting, default)
ConfigGet(c, setting, default) ==
    /\ configs[c].pc = "ready"
    /\ answer' = Answered("config", "get", c, setting, default,
                          SettingsGet(c, setting, default))
    /\ UNCHANGED <<mappings, configs, proxy, signalVars, retryVars,
                   executorVars>>

\* Config.of_proxy(source_config): source_config or Config.of_awaiting_setup()
OfProxy(source_config) ==
    /\ ~proxy.created
    /\ source_config # None => configs[source_config].pc = "ready"
    /\ proxy' = [created |-> TRUE,
                 _source_config |-> IF source_config = None
                                    THEN AwaitingSetup
                                    ELSE source_config]
    /\ answer' = Answered("proxy", "of_proxy", source_config, None, None,
                          ConfigReturned(None))
    /\ UNCHANGED <<mappings, configs, signalVars, retryVars, executorVars>>

\* ConfigProxy.__contains__
ProxyContains(setting) ==
    /\ proxy.created
    /\ answer' = Answered("proxy", "contains", proxy._source_config, setting,
                          None,
                          SettingsContains(proxy._source_config, setting))
    /\ UNCHANGED <<mappings, configs, proxy, signalVars, retryVars,
                   executorVars>>

\* ConfigProxy.__getattr__
ProxyGetAttr(setting) ==
    /\ proxy.created
    /\ answer' = Answered("proxy", "getattr", proxy._source_config, setting,
                          None,
                          SettingsGetAttr(proxy._source_config, setting))
    /\ UNCHANGED <<mappings, configs, proxy, signalVars, retryVars,
                   executorVars>>

\* A proxy whose get passes the setting on without the default.
ForwardedGetWithoutDefault(source, setting, default) ==
    SettingsGet(source, setting, None)

\* self._source_config.get(setting=setting, default=default)
ForwardedGet(source, setting, default) ==
    SettingsGet(source, setting, default)

\* ConfigProxy.get
ProxyGet(setting, default) ==
    /\ proxy.created
    /\ answer' = Answered("proxy", "get", proxy._source_config, setting,
                          default,
                          ForwardedGet(proxy._source_config, setting, default))
    /\ UNCHANGED <<mappings, configs, proxy, signalVars, retryVars,
                   executorVars>>

\* ConfigProxy.set_source: ensure_not_none raises ValueError before the
\* assignment.
SetSource(source_config) ==
    /\ proxy.created
    /\ source_config \in Configs => configs[source_config].pc = "ready"
    /\ IF source_config = None
       THEN /\ answer' = Answered("proxy", "set_source", source_config, None,
                                  None, ConfigRaised("ValueError"))
            /\ UNCHANGED proxy
       ELSE /\ answer' = Answered("proxy", "set_source", source_config, None,
                                  None, ConfigReturned(None))
            /\ proxy' = [proxy EXCEPT !._source_config = source_config]
    /\ UNCHANGED <<mappings, configs, signalVars, retryVars, executorVars>>

\* --------------------------------------------------------------- executor

\* The futures the pool can hold in all.
MaxFutures == NumTasks * MaxExecutions

\* A wait that returns whatever the futures' states.
NoneAwaited(submitted) == TRUE

\* wait(futures, return_when=ALL_COMPLETED) returns
AllCompleted(submitted) ==
    \A i \in 1..Len(submitted) : futures[submitted[i]].state = "done"

\* The futures a worker of the pool is running.
Running == {f \in 1..Len(futures) : futures[f].state = "running"}

\* ConcurrentExecutor(*tasks, wait_for_completion=...), with the default
\* ThreadPoolExecutor.
ExecuteConcurrently(wait_for_completion) ==
    /\ ~executor.created
    /\ executor' = [NoExecutor EXCEPT
                       !.created = TRUE,
                       !._wait_for_completion = wait_for_completion]
    /\ UNCHANGED <<futures, executing, signalVars, retryVars, configVars>>

\* An is_disposed that stays False.
NeverDisposed == FALSE

\* ConcurrentExecutor.is_disposed
IsDisposed == executor._is_disposed

\* The wrapper that not_disposed puts around a method: it raises the error of
\* its exc_factory when the instance is disposed, and calls the method
\* otherwise.
NotDisposed(t, op, method) ==
    IF IsDisposed
    THEN /\ executing' = [executing EXCEPT ![t] =
                [NotExecuting EXCEPT
                    !.pc = "done",
                    !.op = op,
                    !.result = "ConcurrentExecutorDisposedError"]]
         /\ executor' = executor
    ELSE method

\* execute(an_input) is called, as execute or through Task.__call__:
\* not_disposed raises on a disposed executor, otherwise the submissions
\* begin.
Invoke(t, op, an_input) ==
    /\ executing[t].pc \in {"idle", "done"}
    /\ IsDisposed \/ executor.executions < MaxExecutions
    /\ NotDisposed(t, op,
           /\ executor' = [executor EXCEPT !.executions = @ + 1]
           /\ executing' = [executing EXCEPT ![t] =
                  [NotExecuting EXCEPT
                      !.pc = "submit",
                      !.op = op,
                      !.execution = executor.executions + 1,
                      !.an_input = an_input,
                      !.next = 1]])
    /\ UNCHANGED <<futures, signalVars, retryVars, configVars>>

Execute(t, an_input) ==
    /\ executor.created
    /\ Invoke(t, "execute", an_input)

\* Task.__call__(an_input): return self.execute(an_input)
CallAsTask(t, an_input) ==
    /\ executor.created
    /\ Invoke(t, "__call__", an_input)

\* with executor: ... begins.  __enter__ is guarded by not_disposed; it warns
\* when the executor does not wait for completion, and returns self.
EnterScope(t) ==
    /\ executor.created
    /\ executing[t].pc \in {"idle", "done"}
    /\ t \notin executor.entered
    /\ NotDisposed(t, "__enter__",
           /\ executor' = [executor EXCEPT !.entered = @ \cup {t}]
           /\ executing' = [executing EXCEPT ![t] =
                  [NotExecuting EXCEPT
                      !.pc = "done",
                      !.op = "__enter__",
                      !.result = "self",
                      !.warned = ~executor._wait_for_completion]])
    /\ UNCHANGED <<futures, signalVars, retryVars, configVars>>

\* One turn of the reduce: self._executor.submit(self._do_execute_task, _tsk,
\* an_input), which raises RuntimeError once the pool is shut down, and
\* _accumulate.  After the last task a call that does not wait returns.
Submit(t) ==
    LET x == executing[t]
        submitted == Append(x.futures, Len(futures) + 1)
    IN /\ x.pc = "submit"
       /\ IF executor._shutdown
          THEN /\ executing' = [executing EXCEPT ![t] =
                      [x EXCEPT !.pc = "done", !.result = "RuntimeError"]]
               /\ UNCHANGED futures
          ELSE /\ futures' = Append(futures,
                      Submitted(x.execution, x.next, x.an_input))
               /\ executing' = [executing EXCEPT ![t] =
                      IF x.next < NumTasks
                      THEN [x EXCEPT !.futures = submitted, !.next = @ + 1]
                      ELSE IF executor._wait_for_completion
                      THEN [x EXCEPT !.futures = submitted, !.pc = "wait"]
                      ELSE [x EXCEPT !.futures = submitted, !.pc = "done",
                                     !.result = "returned"]]
       /\ UNCHANGED <<executor, signalVars, retryVars, configVars>>

\* if self._wait_for_completion: wait(futures, return_when=ALL_COMPLETED);
\* return futures
Wait(t) ==
    LET x == executing[t]
    IN /\ x.pc = "wait"
       /\ AllCompleted(x.futures)
       /\ executing' = [executing EXCEPT ![t] =
              [x EXCEPT !.pc = "done", !.result = "returned"]]
       /\ UNCHANGED <<executor, futures, signalVars, retryVars, configVars>>

\* A free worker of the pool takes the work item submitted first among those
\* still pending and calls _do_execute_task.
RunTask(f) ==
    /\ f \in 1..Len(futures)
    /\ futures[f].state = "pending"
    /\ \A g \in 1..(f - 1) : futures[g].state # "pending"
    /\ Cardinality(Running) < NumWorkers
    /\ futures' = [futures EXCEPT ![f].state = "running"]
    /\ UNCHANGED <<executor, executing, signalVars, retryVars, configVars>>

\* A task that raises takes the tasks of its execute still pending with it.
FinishTaskFailingFast(f, outcome) ==
    /\ f \in 1..Len(futures)
    /\ futures[f].state = "running"
    /\ futures' = [g \in 1..Len(futures) |->
           IF g = f
           THEN [futures[g] EXCEPT !.state = "done", !.outcome = outcome]
           ELSE IF /\ outcome = "raised"
                   /\ futures[g].state = "pending"
                   /\ futures[g].execution = futures[f].execution
           THEN [futures[g] EXCEPT !.state = "done", !.outcome = "raised"]
           ELSE futures[g]]
    /\ UNCHANGED <<executor, executing, signalVars, retryVars, configVars>>

\* _do_execute_task ends: task.execute(an_input) returned, or raised an
\* Exception that is raised again; the future is done either way.
FinishTask(f, outcome) ==
    /\ f \in 1..Len(futures)
    /\ futures[f].state = "running"
    /\ futures' = [futures EXCEPT ![f].state = "done", ![f].outcome = outcome]
    /\ UNCHANGED <<executor, executing, signalVars, retryVars, configVars>>

\* A dispose that flips the flag.
DisposeToggling(t, op) ==
    /\ executing[t].pc \in {"idle", "done"}
    /\ executor.disposals < MaxDisposals
    /\ executor' = [executor EXCEPT
                       !._is_disposed = ~@,
                       !.disposals = @ + 1,
                       !.entered = IF op = "__exit__" THEN @ \ {t} ELSE @]
    /\ executing' = [executing EXCEPT ![t] =
           [NotExecuting EXCEPT !.pc = "shutdown", !.op = op]]
    /\ UNCHANGED <<futures, signalVars, retryVars, configVars>>

\* dispose() begins, called as dispose or by __exit__:
\* self._is_disposed = True
Disposing(t, op) ==
    /\ executing[t].pc \in {"idle", "done"}
    /\ executor.disposals < MaxDisposals
    /\ executor' = [executor EXCEPT
                       !._is_disposed = TRUE,
                       !.disposals = @ + 1,
                       !.entered = IF op = "__exit__" THEN @ \ {t} ELSE @]
    /\ executing' = [executing EXCEPT ![t] =
           [NotExecuting EXCEPT !.pc = "shutdown", !.op = op]]
    /\ UNCHANGED <<futures, signalVars, retryVars, configVars>>

Dispose(t) ==
    /\ executor.created
    /\ Disposing(t, "dispose")

\* The with block of a thread ends: Disposable.__exit__ calls dispose().
ExitScope(t) ==
    /\ t \in executor.entered
    /\ Disposing(t, "__exit__")

\* self._executor.shutdown(wait=self._wait_for_completion): the pool takes no
\* more work, and its workers go on with the work items already submitted.
Shutdown(t) ==
    LET x == executing[t]
    IN /\ x.pc = "shutdown"
       /\ executor' = [executor EXCEPT !._shutdown = TRUE]
       /\ executing' = [executing EXCEPT ![t] =
              IF executor._wait_for_completion
              THEN [x EXCEPT !.pc = "join"]
              ELSE [x EXCEPT !.pc = "done", !.result = "None"]]
       /\ UNCHANGED <<futures, signalVars, retryVars, configVars>>

\* shutdown(wait=True) joins the workers, which end once no work item is
\* left; dispose() returns.
Join(t) ==
    LET x == executing[t]
    IN /\ x.pc = "join"
       /\ \A f \in 1..Len(futures) : futures[f].state = "done"
       /\ executing' = [executing EXCEPT ![t] =
              [x EXCEPT !.pc = "done", !.result = "None"]]
       /\ UNCHANGED <<executor, futures, signalVars, retryVars, configVars>>

\* --------------------------------------------------------- specifications

\* The signal type the dispatcher specifications connect to and send: the
\* registration sets of different signal types do not interact.
DispatchTypes == {"RegistryItemSet"}

\* One thread uses the dispatcher; the runtime collects receivers as it likes.
Next ==
    \/ \E s \in DispatchTypes, r \in Receivers \cup {None}, w \in BOOLEAN :
           Connect(Main, s, r, w)
    \/ ConnectAdd(Main)
    \/ \E s \in DispatchTypes : ClearDeadReceiversOf(Main, s)
    \/ ClearDeadReceiversDone(Main)
    \/ \E s \in DispatchTypes, r \in Receivers \cup {None} :
           Disconnect(Main, s, r)
    \/ \E s \in DispatchTypes, robust \in BOOLEAN : Send(Main, s, robust)
    \/ SendNext(Main)
    \/ \E outcome \in Outcomes : ReceiverCall(Main, outcome)
    \/ \E r \in Receivers : DropReference(Main, r)
    \/ \E r \in Receivers : Collect(r)
    \/ \E r \in Receivers : MarkDeadReceiverPresent(Main, r)
    \/ Return(Main)

Spec == Init /\ [][Next]_vars

\* Several threads use one dispatcher: Main sends signals to receivers that
\* return normally while the other threads connect and disconnect receivers,
\* and finalizers run on any thread.
NextConc ==
    \/ \E t \in Threads \ {Main}, s \in DispatchTypes, r \in Receivers,
          w \in BOOLEAN :
           Connect(t, s, r, w)
    \/ \E t \in Threads \ {Main} : ConnectAdd(t)
    \/ \E t \in Threads, s \in DispatchTypes : ClearDeadReceiversOf(t, s)
    \/ \E t \in Threads : ClearDeadReceiversDone(t)
    \/ \E t \in Threads \ {Main}, s \in DispatchTypes, r \in Receivers :
           Disconnect(t, s, r)
    \/ \E s \in DispatchTypes : Send(Main, s, TRUE)
    \/ SendNext(Main)
    \/ ReceiverCall(Main, "return")
    \/ \E t \in Threads, r \in Receivers : DropReference(t, r)
    \/ \E r \in Receivers : Collect(r)
    \/ \E t \in Threads, r \in Receivers : MarkDeadReceiverPresent(t, r)
    \/ \E t \in Threads : Return(t)

SpecConc == Init /\ [][NextConc]_vars

\* One thread uses the dispatcher, sending signals robustly to receivers that
\* return normally and that connect and disconnect receivers while they are
\* called.
NextReentrant ==
    \/ \E s \in DispatchTypes, r \in Receivers, w \in BOOLEAN :
           Connect(Main, s, r, w)
    \/ ConnectAdd(Main)
    \/ \E s \in DispatchTypes, r \in Receivers : Disconnect(Main, s, r)
    \/ \E s \in DispatchTypes : Send(Main, s, TRUE)
    \/ SendNext(Main)
    \/ ReceiverCall(Main, "return")
    \/ \E r \in Receivers, w \in BOOLEAN : ReceiverConnects(Main, r, w)
    \/ \E r \in Receivers : ReceiverDisconnects(Main, r)
    \/ Return(Main)

SpecReentrant == Init /\ [][NextReentrant]_vars

\* The receivers that listen to the registry's signals.
Listeners == 1..NumListeners

\* One thread uses a registry; listeners are connected to its dispatcher for
\* either signal type and disconnected again.
NextReg ==
    \/ \E s \in SignalTypes, r \in Listeners : Connect(Main, s, r, FALSE)
    \/ ConnectAdd(Main)
    \/ \E s \in SignalTypes, r \in Listeners : Disconnect(Main, s, r)
    \/ \E key \in Keys \cup {None} : Contains(Main, key)
    \/ \E key \in Keys \cup {None} : GetItem(Main, key)
    \/ \E key \in Keys \cup {None}, default \in Values \cup {None} :
           Get(Main, key, default)
    \/ \E key \in Keys \cup {None}, value \in Values \cup {None} :
           SetItem(Main, key, value)
    \/ \E key \in Keys \cup {None} : DelItem(Main, key)
    \/ \E key \in Keys \cup {None}, default \in Values \cup {None} :
           Pop(Main, key, default)
    \/ \E key \in Keys \cup {None}, value \in Values \cup {None} :
           SetDefault(Main, key, value)
    \/ SendNext(Main)
    \/ \E outcome \in ListenerOutcomes : ReceiverCall(Main, outcome)
    \/ Return(Main)

SpecReg == Init /\ [][NextReg]_vars

\* Receiver r, connected strongly for both of the registry's signal types,
\* copies the registry's contents and from now on applies each signal it is
\* called with to the copy.
StartReplica(t, r) ==
    /\ pc[t] = "idle"
    /\ replica.listener = None
    /\ \A s \in SignalTypes : StrongEntry(r) \in ReceiversOf(receivers, s)
    /\ replica' = [listener |-> r, items |-> items]
    /\ UNCHANGED <<dispatcherVars, items, runtimeVars, pc, frame, iterator,
                   current, result, historyVars, disconnected, retryVars,
                   configVars, executorVars>>

\* disconnect(s, r) for a receiver that keeps no map of the registry.
DisconnectOther(t, s, r) ==
    /\ r # replica.listener
    /\ Disconnect(t, s, r)

\* One thread uses a registry; receivers are connected to its dispatcher, one
\* of them comes to keep a map of the registry and stays connected.
NextReplica ==
    \/ \E s \in SignalTypes, r \in Receivers : Connect(Main, s, r, FALSE)
    \/ ConnectAdd(Main)
    \/ \E s \in SignalTypes, r \in Receivers : DisconnectOther(Main, s, r)
    \/ \E r \in Receivers : StartReplica(Main, r)
    \/ \E key \in Keys \cup {None}, value \in Values \cup {None} :
           SetItem(Main, key, value)
    \/ \E key \in Keys \cup {None} : DelItem(Main, key)
    \/ \E key \in Keys \cup {None}, default \in Values \cup {None} :
           Pop(Main, key, default)
    \/ \E key \in Keys \cup {None}, value \in Values \cup {None} :
           SetDefault(Main, key, value)
    \/ SendNext(Main)
    \/ \E outcome \in ListenerOutcomes : ReceiverCall(Main, outcome)
    \/ Return(Main)

SpecReplica == Init /\ [][NextReplica]_vars

\* connect(s, r, weak=False) made while no thread is in a call.
ConnectBetweenCalls(t, s, r) ==
    /\ \A u \in Threads : pc[u] = "idle"
    /\ Connect(t, s, r, FALSE)

\* The threads call setdefault on one registry, whose items are never taken
\* out; listeners are connected to its dispatcher while no call is under way.
NextRegConc ==
    \/ \E s \in SignalTypes, r \in Listeners : ConnectBetweenCalls(Main, s, r)
    \/ ConnectAdd(Main)
    \/ \E t \in Threads, key \in Keys \cup {None}, value \in Values \cup {None} :
           SetDefaultLookup(t, key, value)
    \/ \E t \in Threads : SetDefaultStore(t)
    \/ \E t \in Threads : SendNext(t)
    \/ \E t \in Threads, outcome \in ListenerOutcomes : ReceiverCall(t, outcome)
    \/ \E t \in Threads : Return(t)

SpecRegConc == Init /\ [][NextRegConc]_vars

\* One thread constructs a retry policy and calls a callable wrapped by it,
\* again and again.  Time passes while the callable runs and while the thread
\* sleeps, which may last longer than the delay asked for.
NextRetry ==
    \/ \E initial_delay \in 0..MaxInitialDelay,
          maximum_delay \in 0..MaxMaximumDelay,
          timeout \in {NoTimeout} \cup 0..MaxTimeout,
          multiplicative_factor \in 0..MaxFactor :
           OfExponentialBackoff(initial_delay, maximum_delay, timeout,
                                multiplicative_factor)
    \/ DoRetry(Main)
    \/ \E yielded \in 0..MaxMaximumDelay, outcome \in RetryOutcomes,
          duration \in 0..MaxDuration, value \in Values :
           Attempt(Main, yielded, outcome, duration, value)
    \/ DeliberateNextRetry(Main)
    \/ \E oversleep \in 0..MaxOversleep : Sleep(Main, oversleep)

SpecRetry == Init /\ [][NextRetry]_vars

\* A call of the wrapped callable during which the clock advances.
TimedAttempt(t) ==
    \E yielded \in 0..MaxMaximumDelay, outcome \in RetryOutcomes,
       duration \in 1..MaxDuration, value \in Values :
        Attempt(t, yielded, outcome, duration, value)

\* The thread that is in do_retry keeps running, and the clock advances: of
\* the calls of the wrapped callable, time passes during some again and again.
RetryFairness ==
    /\ WF_vars(\E yielded \in 0..MaxMaximumDelay, outcome \in RetryOutcomes,
                  duration \in 0..MaxDuration, value \in Values :
                   Attempt(Main, yielded, outcome, duration, value))
    /\ WF_vars(DeliberateNextRetry(Main))
    /\ WF_vars(\E oversleep \in 0..MaxOversleep : Sleep(Main, oversleep))
    /\ SF_vars(TimedAttempt(Main))

SpecRetryLive == SpecRetry /\ RetryFairness

\* The config of the single-config specification.
TheConfig == CHOOSE c \in Configs : \A d \in Configs : c <= d

\* The lists of at most n initializers.
InitializerLists(n) == UNION {[1..m -> Initializers] : m \in 0..n}

\* A mapping of settings is filled and changed by its owner, one config is
\* constructed from it with a list of initializers, and its settings are
\* read.
NextConfig ==
    \/ \E setting \in Settings, value \in Values \cup {None} :
           ChangeSettings(setting, value)
    \/ \E initializers \in InitializerLists(MaxInitializers) :
           Construct(TheConfig, initializers)
    \/ RunInitializer(TheConfig)
    \/ \E setting \in Settings : ConfigContains(TheConfig, setting)
    \/ \E setting \in Settings : ConfigGetAttr(TheConfig, setting)
    \/ \E setting \in Settings, default \in Values \cup {None} :
           ConfigGet(TheConfig, setting, default)

SpecConfig == Init /\ [][NextConfig]_vars

\* Configs are constructed, each with one initializer at most, and a proxy
\* is created, read, and given one source after another.
NextProxy ==
    \/ \E setting \in Settings, value \in Values \cup {None} :
           ChangeSettings(setting, value)
    \/ \E c \in Configs, initializers \in InitializerLists(1) :
           Construct(c, initializers)
    \/ \E c \in Configs : RunInitializer(c)
    \/ \E source_config \in Configs \cup {None} : OfProxy(source_config)
    \/ \E setting \in Settings : ProxyContains(setting)
    \/ \E setting \in Settings : ProxyGetAttr(setting)
    \/ \E setting \in Settings, default \in Values \cup {None} :
           ProxyGet(setting, default)
    \/ \E source_config \in Configs \cup {None, AwaitingSetup} :
           SetSource(source_config)

SpecProxy == Init /\ [][NextProxy]_vars


\* An executor is constructed, waiting for completion or not; one thread
\* uses it (execute, a call, a with block), the workers of the pool run the
\* tasks, and any thread that is in no call disposes of the executor.
NextExecutor ==
    \/ \E wait_for_completion \in BOOLEAN :
           ExecuteConcurrently(wait_for_completion)
    \/ \E an_input \in Values \cup {None} : Execute(Main, an_input)
    \/ \E an_input \in Values \cup {None} : CallAsTask(Main, an_input)
    \/ EnterScope(Main)
    \/ ExitScope(Main)
    \/ Submit(Main)
    \/ Wait(Main)
    \/ \E t \in Threads : Shutdown(t)
    \/ \E t \in Threads : Join(t)
    \/ \E f \in 1..MaxFutures : RunTask(f)
    \/ \E f \in 1..MaxFutures, outcome \in {"returned", "raised"} :
           FinishTask(f, outcome)
    \/ \E t \in Threads : Dispose(t)

SpecExecutor == Init /\ [][NextExecutor]_vars

\* ------------------------------------------------------------ properties

\* The entries of receiver r among entries.
EntriesOf(entries, r) == {e \in entries : e.rcv = r}

\* Thread t is in, or has just finished, a send.
Sending(t) == frame[t].op = "send"

\* Thread t is calling receiver r, or has called it, in its current send.
Invokes(t, r) ==
    \/ invoked[t][r] > 0
    \/ pc[t] = "call" /\ current[t].rcv = r

\* C1: a receiver that had been garbage collected when a send began is never
\* invoked by that send, and the send does not fail over the dead entry (no
\* TypeError from calling a cleared reference, no error from the walk of the
\* set), whether the dead entry was swept before the walk or is still in the
\* set that is walked.
DeadReceiverNotInvoked ==
    \A t \in Threads :
        Sending(t) =>
            /\ \A r \in frame[t].dead : ~Invokes(t, r)
            /\ result[t].exc \notin {"TypeError", "RuntimeError"}
            /\ \A x \in raised[t] : x.exc # "TypeError"

\* A send has walked a set that still held a dead entry, called a live
\* receiver and returned.
DeadEntryWalked ==
    \E t \in Threads :
        /\ Sending(t) /\ pc[t] = "done"
        /\ result[t].kind = "returned"
        /\ frame[t].unswept # {}
        /\ \E r \in Receivers : invoked[t][r] > 0

\* C2: once disconnect(S, R) has returned (and connect(S, R) has not been
\* called again) no send of S invokes R, however R was connected: when
\* disconnect returns the set of S holds neither R nor a weak reference to R,
\* and it still holds every entry of the other receivers that is not dead.
DisconnectedNotInvoked ==
    \A t \in Threads :
        /\ Sending(t) => \A r \in frame[t].disconnected : ~Invokes(t, r)
        /\ (frame[t].op = "disconnect" /\ pc[t] = "done"
                /\ result[t].kind = "returned") =>
               LET left == ReceiversOf(receivers, frame[t].signal_type)
               IN /\ EntriesOf(left, frame[t].receiver) = {}
                  /\ \A e \in frame[t].connected :
                         (e.rcv # frame[t].receiver /\ ~IsDead(e)) => e \in left

\* A send that began after a receiver was disconnected has returned having
\* called another receiver, which is still connected.
SentAfterDisconnect ==
    \E t \in Threads :
        /\ Sending(t) /\ pc[t] = "done"
        /\ result[t].kind = "returned"
        /\ frame[t].disconnected # {}
        /\ \E r \in Receivers \ frame[t].disconnected : invoked[t][r] = 1

\* A robust send of thread t has ended.
RobustSendDone(t) == Sending(t) /\ frame[t].robust /\ pc[t] = "done"

\* C3 (as stated): a robust send invokes every live receiver connected to the
\* signal's type exactly once and returns normally.
RobustInvokesEachReceiverOnce ==
    \A t \in Threads :
        RobustSendDone(t) =>
            /\ result[t].kind = "returned"
            /\ \A r \in Receivers :
                   (alive[r] /\ EntriesOf(frame[t].connected, r) # {}) =>
                       invoked[t][r] = 1

\* C3: a robust send ends in one of two ways.  It returns normally, when no
\* receiver raised an error that is not an Exception; it has then invoked each
\* receiver that is still alive once per entry it has in the set (twice when
\* it is connected both weakly and strongly), and a receiver that died during
\* the send at most once per entry, whatever Exceptions they raised.  Or a
\* receiver raised an error that is not an Exception, and that error leaves
\* send.
RobustDelivery ==
    \A t \in Threads :
        RobustSendDone(t) =>
            IF \E x \in raised[t] : ~IsException(x.exc)
            THEN result[t] = Raised("BaseException", None)
            ELSE /\ result[t] = Returned(None)
                 /\ \A r \in Receivers :
                        LET entries == EntriesOf(frame[t].connected, r)
                        IN IF alive[r]
                           THEN invoked[t][r] = Cardinality(entries)
                           ELSE invoked[t][r] <= Cardinality(entries)

\* A robust send has returned although a receiver raised, having called
\* another receiver too.
RobustSendSurvivedError ==
    \E t \in Threads :
        /\ RobustSendDone(t)
        /\ result[t].kind = "returned"
        /\ \E x \in raised[t] :
               \E r \in Receivers \ {x.rcv} : invoked[t][r] = 1

\* C4: in a send that is not robust the first error a receiver raises ends
\* the send at once, so that no further receiver is invoked, and is the error
\* the send raises; with no error the send returns.
FirstErrorPropagates ==
    \A t \in Threads :
        (Sending(t) /\ ~frame[t].robust) =>
            IF raised[t] = {}
            THEN pc[t] = "done" => result[t] = Returned(None)
            ELSE /\ pc[t] = "done"
                 /\ \E x \in raised[t] :
                        /\ raised[t] = {x}
                        /\ invoked[t][x.rcv] > 0
                        /\ result[t] = Raised(x.exc, None)

\* A send that is not robust has raised a receiver's error while a live
\* receiver of its set had not been called.
LaterReceiverSkipped ==
    \E t \in Threads :
        /\ Sending(t) /\ ~frame[t].robust /\ pc[t] = "done"
        /\ result[t].kind = "raised"
        /\ \E e \in frame[t].connected :
               alive[e.rcv] /\ invoked[t][e.rcv] = 0

\* C5 (as stated): the dispatcher is thread-safe, so that a connect or a
\* disconnect made by another thread while a send is under way never makes
\* the send fail: a send to receivers that return normally returns normally.
ConcurrentChangeNeverFailsSend ==
    \A t \in Threads :
        (Sending(t) /\ pc[t] = "done") => result[t] = Returned(None)

\* The operations of a registry that take a key.
RegistryOps ==
    {"contains", "getitem", "get", "setitem", "delitem", "pop", "setdefault"}

\* Thread t is in, or has just finished, registry operation op.
InRegistryOp(t, op) == frame[t].op = op

\* C6: a set emits exactly one RegistryItemSet carrying the key and the value
\* that is now stored under it; a delete or a pop of a key that was there
\* emits exactly one RegistryItemRemoved carrying that key, and the key is
\* gone; contains, get-by-key, get and a pop of a missing key emit nothing and
\* leave the registry as it was.
OneSignalPerMutation ==
    \A t \in Threads :
        LET f == frame[t]
        IN /\ (InRegistryOp(t, "setitem") /\ f.key # None) =>
                  /\ emitted[t] = <<RegistryItemSet(f.key, f.value)>>
                  /\ Lookup(f.key) = [present |-> TRUE, value |-> f.value]
           /\ (f.op \in {"delitem", "pop"} /\ f.key \in DOMAIN before[t]) =>
                  /\ emitted[t] = <<RegistryItemRemoved(f.key)>>
                  /\ items = DeleteItem(before[t], f.key)
           /\ (f.op \in {"contains", "getitem", "get"}
                  \/ (InRegistryOp(t, "pop") /\ f.key \notin DOMAIN before[t])) =>
                  /\ emitted[t] = <<>>
                  /\ items = before[t]

\* A pop has removed a key, its one signal has reached a listener, and it has
\* returned the value that was stored.
PopSignalled ==
    \E t \in Threads :
        /\ InRegistryOp(t, "pop") /\ pc[t] = "done"
        /\ frame[t].key \in DOMAIN before[t]
        /\ result[t] = Returned(before[t][frame[t].key])
        /\ \E r \in Receivers : invoked[t][r] = 1

\* C7: a receiver that looks the signalled key up while it handles a
\* RegistryItemSet finds the signalled value under it, and one that handles a
\* RegistryItemRemoved finds the key absent.
SignalAfterMutation ==
    \A t \in Threads :
        \A o \in observed[t] :
            IF o.signal.type = "RegistryItemSet"
            THEN o.found = [present |-> TRUE, value |-> o.signal.item_value]
            ELSE ~o.found.present

\* A listener has handled the RegistryItemSet of a set that replaced a
\* different value.
ListenerSawReplacement ==
    \E t \in Threads :
        \E o \in observed[t] :
            /\ o.signal.type = "RegistryItemSet"
            /\ o.signal.item_key \in DOMAIN before[t]
            /\ before[t][o.signal.item_key] # o.signal.item_value

\* C8: setdefault(key, value) on a key that is there returns the stored value
\* at once, with the registry unchanged and no signal; on a missing key it
\* stores value under key, emits exactly one RegistryItemSet carrying key and
\* value, and returns value.
SetDefaultContract ==
    \A t \in Threads :
        LET f == frame[t]
        IN (InRegistryOp(t, "setdefault") /\ f.key # None) =>
               IF f.key \in DOMAIN before[t]
               THEN /\ pc[t] = "done"
                    /\ result[t] = Returned(before[t][f.key])
                    /\ items = before[t]
                    /\ emitted[t] = <<>>
               ELSE /\ items = StoreItem(before[t], f.key, f.value)
                    /\ emitted[t] = <<RegistryItemSet(f.key, f.value)>>
                    /\ pc[t] = "done" => result[t] = Returned(f.value)

\* A setdefault on a missing key has stored its value, signalled a listener
\* and returned, in a registry that held another key.
SetDefaultInserted ==
    \E t \in Threads :
        /\ InRegistryOp(t, "setdefault") /\ pc[t] = "done"
        /\ frame[t].key # None
        /\ frame[t].key \notin DOMAIN before[t]
        /\ before[t] # <<>>
        /\ \E r \in Receivers : invoked[t][r] = 1

\* C9: deleting a key that is not in the registry raises
\* NoSuchRegistryItemError carrying that key, emits no signal and leaves the
\* registry as it was.
DeleteMissingRaises ==
    \A t \in Threads :
        LET f == frame[t]
        IN (InRegistryOp(t, "delitem") /\ f.key # None
                /\ f.key \notin DOMAIN before[t]) =>
               /\ pc[t] = "done"
               /\ result[t] = Raised("NoSuchRegistryItemError", f.key)
               /\ emitted[t] = <<>>
               /\ items = before[t]

\* A delete of a missing key has raised in a registry that holds another key
\* and has a listener for removals.
DeleteMissingRaised ==
    \E t \in Threads :
        /\ InRegistryOp(t, "delitem") /\ pc[t] = "done"
        /\ frame[t].key # None
        /\ frame[t].key \notin DOMAIN before[t]
        /\ before[t] # <<>>
        /\ ReceiversOf(receivers, "RegistryItemRemoved") # {}

\* Operation op of thread t was given a None key and refused it.
RejectedNullKey(t) ==
    /\ pc[t] = "done"
    /\ result[t].kind = "raised"
    /\ result[t].exc = "ValueError"
    /\ emitted[t] = <<>>
    /\ items = before[t]

\* C10 (as stated): every operation that takes a key, contains among them,
\* refuses a None key with a ValueError, emits no signal and leaves the
\* registry as it was.
EveryOpRejectsNullKey ==
    \A t \in Threads :
        (frame[t].op \in RegistryOps /\ frame[t].key = None) =>
            RejectedNullKey(t)

\* C10: get-by-key, get, set, delete, pop and setdefault refuse a None key
\* with a ValueError, emit no signal and leave the registry as it was;
\* contains does not check its key and answers FALSE for None, also with no
\* signal and no change.
NullKeyRejected ==
    \A t \in Threads :
        (frame[t].op \in RegistryOps /\ frame[t].key = None) =>
            IF InRegistryOp(t, "contains")
            THEN /\ pc[t] = "done"
                 /\ result[t] = Returned(FALSE)
                 /\ emitted[t] = <<>>
                 /\ items = before[t]
            ELSE RejectedNullKey(t)

\* A set with a None key has been refused by a registry that holds a key and
\* has a listener for sets.
NullKeySetRefused ==
    \E t \in Threads :
        /\ InRegistryOp(t, "setitem") /\ pc[t] = "done"
        /\ frame[t].key = None
        /\ result[t].exc = "ValueError"
        /\ items # <<>>
        /\ ReceiversOf(receivers, "RegistryItemSet") # {}

\* The callable's last call raised an error that do_retry does not retry: it
\* is no Exception, or the predicate rejects it.
LastErrorNotRetried(t) ==
    /\ retrying[t].outcome.kind = "raised"
    /\ ~(CaughtForRetry(retrying[t].outcome.exc)
            /\ IfTransientException(retrying[t].outcome.exc))

\* C11: when the wrapper returns, it returns what the last call of the
\* callable returned; the callable was called once more than it had failed
\* with an accepted error, and sleep was called once per such failure, so
\* that every sleep came before the successful call.
SuccessAfterFailures ==
    \A t \in Threads :
        LET r == retrying[t]
        IN (r.pc = "done" /\ r.result.kind = "returned") =>
               /\ r.outcome.kind = "returned"
               /\ r.result = r.outcome
               /\ r.attempts < MaxAttempts =>
                      /\ r.attempts = r.failures + 1
                      /\ r.sleeps = r.failures

\* The wrapper has returned at the third call of the callable, after two
\* accepted failures and two sleeps, under a policy with a deadline.
SucceededAtThirdAttempt ==
    \E t \in Threads :
        /\ retrying[t].pc = "done"
        /\ retrying[t].result.kind = "returned"
        /\ retrying[t].deadline_time # NoDeadline
        /\ retrying[t].failures = 2
        /\ retrying[t].attempts = 3
        /\ retrying[t].sleeps = 2

\* C12: when the callable raises an error that is not retried, the wrapper
\* ends at once with that very error (not a RetryError, not an earlier
\* error): the failing call is the last call of the callable, it is not
\* counted as a failure to back off from, and no sleep follows it.
RejectedErrorReraised ==
    \A t \in Threads :
        LET r == retrying[t]
        IN LastErrorNotRetried(t) =>
               /\ r.pc = "done"
               /\ r.result = r.outcome
               /\ r.result.exc # "RetryError"
               /\ r.last_exp # r.outcome.error
               /\ r.attempts < MaxAttempts =>
                      /\ r.outcome.error.attempt = r.attempts
                      /\ r.attempts = r.failures + 1
                      /\ r.sleeps = r.failures

\* The wrapper has raised the ValueError of the callable's second call, which
\* followed a transient error and a sleep.
RejectedAfterRetry ==
    \E t \in Threads :
        /\ retrying[t].pc = "done"
        /\ retrying[t].result.exc = "ValueError"
        /\ retrying[t].result.error.attempt = 2
        /\ retrying[t].last_exp.type = "SGHITransientError"
        /\ retrying[t].sleeps = 1

\* C13 (as stated): under a policy whose timeout is a number, a call of the
\* wrapper does not go on for ever when the clock advances: it ends, and when
\* it ends with RetryError the deadline has passed and the cause is the last
\* error the callable raised.
FiniteTimeoutEndsRetrying ==
    \A t \in Threads :
        /\ (retrying[t].pc \in {"loop", "deliberate", "sleep"}
                /\ policy.timeout # NoTimeout)
               ~> (retrying[t].pc = "done")
        /\ [](retrying[t].result.exc = "RetryError" =>
                 /\ retrying[t].result.error = retrying[t].last_exp
                 /\ retrying[t].last_exp = retrying[t].outcome.error
                 /\ retrying[t].read > retrying[t].deadline_time)

DeadlineIsStartPlusTimeout ==
    \A t \in Threads :
        LET r == retrying[t]
        IN r.pc # "idle" =>
               /\ policy.timeout # NoTimeout =>
                      r.deadline_time = r.start + policy.timeout
               /\ r.attempts = 0 => r.generator = policy.initial_delay

\* C16 (as stated): a call of the wrapper has a deadline exactly when the
\* policy's timeout is not None, a timeout of 0 included, and a call without
\* a deadline never raises RetryError.
DeadlineExactlyWhenTimeoutGiven ==
    \A t \in Threads :
        LET r == retrying[t]
        IN r.pc # "idle" =>
               /\ (r.deadline_time # NoDeadline) <=> (policy.timeout # NoTimeout)
               /\ r.deadline_time = NoDeadline => r.result.exc # "RetryError"

\* The initializers of a setting among given, in the order given.
InitializersOf(given, setting) ==
    SelectSeq(given, LAMBDA initializer : initializer.setting = setting)

\* Pipe.execute: the input passed through the initializers one after another,
\* up to the first that raises.
RECURSIVE Piped(_, _)
Piped(initializers, an_input) ==
    IF initializers = <<>>
    THEN ConfigReturned(an_input)
    ELSE LET out == ExecuteInitializer(Head(initializers).task, an_input)
         IN IF out.kind = "raised"
            THEN out
            ELSE Piped(Tail(initializers), out.value)

\* C17: every initializer that was called received the output of the
\* initializers of its setting given before it, applied one after another to
\* the raw value of the setting (None when it was absent); and in a
\* constructed config a setting with initializers is present with the output
\* of the last of them, while a setting without keeps its raw value or
\* absence.
InitializersRunAsPipelines ==
    \A c \in Configs :
        LET k == configs[c]
        IN /\ \A j \in 1..Len(k.ran) :
                  LET setting == k.given[k.ran[j].index].setting
                      earlier == InitializersOf(
                          SubSeq(k.given, 1, k.ran[j].index - 1), setting)
                  IN ConfigReturned(k.ran[j].an_input)
                         = Piped(earlier, DictGet(k.raw, setting, None))
           /\ k.pc = "ready" =>
                  \A setting \in Settings :
                      IF InitializersOf(k.given, setting) = <<>>
                      THEN /\ (setting \in DOMAIN SettingsOf(c))
                                  = (setting \in DOMAIN k.raw)
                           /\ DictGet(SettingsOf(c), setting, None)
                                  = DictGet(k.raw, setting, None)
                      ELSE /\ setting \in DOMAIN SettingsOf(c)
                           /\ ConfigReturned(SettingsOf(c)[setting])
                                  = Piped(InitializersOf(k.given, setting),
                                          DictGet(k.raw, setting, None))

\* A config was constructed from a mapping without a setting that has two
\* initializers, a default and a conversion: the setting is present with the
\* converted default.
AbsentSettingInitialized ==
    \E c \in Configs, setting \in Settings :
        /\ configs[c].pc = "ready"
        /\ setting \notin DOMAIN configs[c].raw
        /\ Len(configs[c].given) = 2
        /\ configs[c].given[1] = [setting |-> setting, task |-> "default"]
        /\ configs[c].given[2] = [setting |-> setting, task |-> "convert"]
        /\ setting \in DOMAIN SettingsOf(c)
        /\ SettingsOf(c)[setting] = DefaultSetting + NumValues

\* C18: from the moment a config is constructed its fields and its settings
\* stay as they are, whatever is read from it and however the mapping it was
\* built from is changed, no initializer is called again, and each of the
\* initializers given was called exactly once.
ConstructedConfigNeverChanges ==
    /\ [][\A c \in Configs :
              configs[c].pc = "ready" =>
                  /\ configs'[c] = configs[c]
                  /\ mappings'[configs[c]._settings]
                         = mappings[configs[c]._settings]]_vars
    /\ [](\A c \in Configs :
              configs[c].pc = "ready" =>
                  \A i \in 1..Len(configs[c].given) :
                      Cardinality({j \in 1..Len(configs[c].ran) :
                                       configs[c].ran[j].index = i}) = 1)

\* A constructed config whose initializers ran has been read after the
\* mapping it was built from was changed.
ReadAfterSettingsChanged ==
    \E c \in Configs :
        /\ configs[c].pc = "ready"
        /\ Len(configs[c].ran) = MaxInitializers
        /\ mappings[GivenSettings] # configs[c].raw
        /\ answer.via = "config"
        /\ answer.source = c
        /\ answer.op = "get"
        /\ answer.outcome.value # None
        /\ answer.setting \notin DOMAIN mappings[GivenSettings]

\* C19: what an operation through the proxy gives is what the instance the
\* proxy wraps gives: NotSetupError from the instance of a proxy created
\* without a source, and otherwise the presence, the value or
\* NoSuchSettingError, and the value or the default, according to the wrapped
\* config's settings.  set_source(c) makes c the wrapped instance, and
\* set_source(None) raises ValueError and leaves the wrapped instance as it
\* was.
ProxyForwards ==
    LET wrapped == proxy._source_config
        setting == answer.setting
    IN /\ answer.op = "of_proxy" =>
              wrapped = IF answer.source = None
                        THEN AwaitingSetup
                        ELSE answer.source
       /\ answer.op = "set_source" =>
              IF answer.source = None
              THEN /\ answer.outcome = ConfigRaised("ValueError")
                   /\ wrapped = answer.wrapped
              ELSE /\ answer.outcome = ConfigReturned(None)
                   /\ wrapped = answer.source
       /\ (answer.via = "proxy"
               /\ answer.op \in {"contains", "getattr", "get"}) =>
              /\ wrapped = answer.wrapped
              /\ IF wrapped = AwaitingSetup
                 THEN answer.outcome = ConfigRaised("NotSetupError")
                 ELSE IF answer.op = "contains"
                 THEN answer.outcome
                          = ConfigFound(setting \in DOMAIN SettingsOf(wrapped))
                 ELSE IF setting \in DOMAIN SettingsOf(wrapped)
                 THEN answer.outcome
                          = ConfigReturned(SettingsOf(wrapped)[setting])
                 ELSE IF answer.op = "getattr"
                 THEN answer.outcome = ConfigRaised("NoSuchSettingError")
                 ELSE answer.outcome = ConfigReturned(answer.default)

\* The proxy, whose source was set to a config other than the first, has
\* answered a get of a setting that config lacks with the default.
ProxyGaveDefaultOfNewSource ==
    /\ answer.via = "proxy"
    /\ answer.op = "get"
    /\ proxy._source_config \in Configs \ {TheConfig}
    /\ answer.setting \notin DOMAIN SettingsOf(proxy._source_config)
    /\ answer.default # None
    /\ answer.outcome = ConfigReturned(answer.default)
    /\ \E setting \in Settings :
           setting \in DOMAIN SettingsOf(proxy._source_config)

\* C20: when execute returns from an executor that waits for completion, it
\* returns one future per task, in the order of the tasks; each is the one
\* future this call submitted for its task, with the input of the call, and
\* each is done.
BlockingExecuteWaitsForAll ==
    \A t \in Threads :
        LET x == executing[t]
        IN (executor._wait_for_completion /\ x.pc = "done"
                /\ x.result = "returned") =>
               /\ Len(x.futures) = NumTasks
               /\ \A i \in Tasks :
                      /\ futures[x.futures[i]]
                             = [Submitted(x.execution, i, x.an_input) EXCEPT
                                   !.state = "done",
                                   !.outcome = futures[x.futures[i]].outcome]
                      /\ futures[x.futures[i]].outcome # "none"
                      /\ Cardinality({f \in 1..Len(futures) :
                             /\ futures[f].execution = x.execution
                             /\ futures[f].task = i}) = 1

\* The second call of execute on an executor that waits has returned, and
\* one of its tasks had raised.
BlockingExecuteReturnedAgain ==
    \E t \in Threads :
        /\ executor._wait_for_completion
        /\ executing[t].pc = "done"
        /\ executing[t].result = "returned"
        /\ executing[t].execution = MaxExecutions
        /\ Len(futures) = MaxFutures
        /\ \E i \in Tasks :
               futures[executing[t].futures[i]].outcome = "raised"

\* The calls that not_disposed guards.
GuardedOps == {"execute", "__call__", "__enter__"}

\* Thread t begins a call of one of ops in this step.
Begins(t, ops) ==
    /\ executing[t].pc \in {"idle", "done"}
    /\ executing'[t] # executing[t]
    /\ executing'[t].op \in ops

\* C21: once dispose has been called on the executor, every call of execute,
\* of the executor as a task, and of __enter__ ends at once with
\* ConcurrentExecutorDisposedError: it submits no task, and leaves the
\* executor and its futures as they were.
DisposedExecutorRejects ==
    [][\A t \in Threads :
           (executor.disposals > 0 /\ Begins(t, GuardedOps)) =>
               /\ executing'[t].pc = "done"
               /\ executing'[t].result = "ConcurrentExecutorDisposedError"
               /\ executing'[t].futures = <<>>
               /\ futures' = futures
               /\ executor' = executor]_vars

\* After an execute that submitted its tasks and a dispose, a call of the
\* executor as a task was refused.
RejectedAfterDispose ==
    \E t \in Threads :
        /\ executor.disposals > 0
        /\ executor.executions > 0
        /\ Len(futures) = NumTasks
        /\ executing[t].op = "__call__"
        /\ executing[t].pc = "done"
        /\ executing[t].result = "ConcurrentExecutorDisposedError"

\* C22: _is_disposed is False until dispose is first called, by the caller
\* or by the end of a with block, and True ever after; a call of dispose on
\* an executor that is already shut down changes nothing of the executor
\* and nothing of its futures.
DisposedFlagIsSetOnce ==
    /\ [](executor._is_disposed <=> executor.disposals > 0)
    /\ [][executor._is_disposed => executor'._is_disposed]_vars
    /\ [][executor._shutdown => executor'._shutdown]_vars
    /\ [][\A t \in Threads :
             (executor._shutdown /\ executing'[t] # executing[t]
                  /\ executing'[t].op \in {"dispose", "__exit__"}) =>
                 /\ executor'._is_disposed = executor._is_disposed
                 /\ executor'._shutdown = executor._shutdown
                 /\ executor'._wait_for_completion
                        = executor._wait_for_completion
                 /\ executor'.executions = executor.executions
                 /\ futures' = futures]_vars

\* The with block ended on an executor that another call of dispose had
\* already shut down, and the dispose of __exit__ has returned.
DisposedAgainOnExit ==
    \E t \in Threads :
        /\ executor.disposals = MaxDisposals
        /\ executor._is_disposed
        /\ executor._shutdown
        /\ executing[t].op = "__exit__"
        /\ executing[t].pc = "done"
        /\ Len(futures) = NumTasks

\* C23: an execute that has submitted all its tasks returns the futures,
\* whatever the tasks did; and the end of a task changes the future of that
\* task and nothing else: no other future, and no call of execute.
TaskErrorStaysOnItsFuture ==
    /\ [](\A t \in Threads :
             (executing[t].op \in {"execute", "__call__"}
                  /\ executing[t].pc = "done"
                  /\ Len(executing[t].futures) = NumTasks) =>
                 executing[t].result = "returned")
    /\ [][\A f \in 1..Len(futures) :
             (futures[f].state = "running" /\ futures'[f] # futures[f]) =>
                 /\ futures'[f].state = "done"
                 /\ \A g \in 1..Len(futures) \ {f} : futures'[g] = futures[g]
                 /\ Len(futures') = Len(futures)
                 /\ executing' = executing]_vars
    /\ [][\A f \in 1..Len(futures) :
             futures[f].state = "done" => futures'[f] = futures[f]]_vars

\* An execute that waits has returned futures of which the first holds an
\* error and the second a result.
ReturnedWithOneFailure ==
    \E t \in Threads :
        /\ executing[t].op = "execute"
        /\ executing[t].pc = "done"
        /\ executing[t].result = "returned"
        /\ executor._wait_for_completion
        /\ futures[executing[t].futures[1]].outcome = "raised"
        /\ futures[executing[t].futures[2]].outcome = "returned"

\* C27: a call of execute ends in one of two ways, also when dispose runs
\* during it: it returns the futures of all its tasks, or it raises
\* ConcurrentExecutorDisposedError and has submitted no task.
ExecuteSubmitsAllOrNone ==
    \A t \in Threads :
        LET x == executing[t]
            submitted == {f \in 1..Len(futures) :
                             futures[f].execution = x.execution}
        IN (x.op \in {"execute", "__call__"} /\ x.pc = "done") =>
               \/ /\ x.result = "returned"
                  /\ Len(x.futures) = NumTasks
               \/ /\ x.result = "ConcurrentExecutorDisposedError"
                  /\ x.futures = <<>>
                  /\ x.execution = 0 \/ submitted = {}

\* Thread t has, in this step, returned from disconnect(s, r).
Disconnects(t, s, r) ==
    /\ pc[t] \in {"idle", "sweep"}
    /\ pc'[t] = "done"
    /\ frame'[t].op = "disconnect"
    /\ frame'[t].signal_type = s
    /\ frame'[t].receiver = r

\* C24 (as stated): a receiver connected with weak=False stays in the set of
\* its signal type until it is disconnected, and every send of that type that
\* has ended has invoked it.
StrongReceiverInvokedByEverySend ==
    \A t \in Threads :
        (Sending(t) /\ pc[t] = "done") =>
            \A r \in Receivers :
                StrongEntry(r) \in frame[t].connected => invoked[t][r] > 0

\* C24: connect(S, R, weak=False) leaves R itself in the set of S; R is then
\* never collected, whatever references the application drops, and stays in
\* the set through every step (sweeps of dead receivers included) except a
\* disconnect(S, R); and every send of S that returns normally has invoked R
\* (other sends are ended early by the error of a receiver).
StrongReceiverStaysConnected ==
    /\ [](\A t \in Threads :
             (frame[t].op = "connect" /\ ~frame[t].weak /\ pc[t] = "done"
                  /\ result[t].kind = "returned") =>
                 StrongEntry(frame[t].receiver)
                     \in ReceiversOf(receivers, frame[t].signal_type))
    /\ [](\A r \in Receivers : StronglyConnected(r) => alive[r])
    /\ [][\A s \in SignalTypes, r \in Receivers :
             StrongEntry(r) \in ReceiversOf(receivers, s) =>
                 \/ StrongEntry(r) \in ReceiversOf(receivers', s)
                 \/ \E t \in Threads : Disconnects(t, s, r)]_vars
    /\ [](\A t \in Threads :
             (Sending(t) /\ pc[t] = "done" /\ result[t].kind = "returned") =>
                 \A r \in Receivers :
                     StrongEntry(r) \in frame[t].connected =>
                         invoked[t][r] > 0)

\* A send that began after another receiver had died and been swept has
\* returned having invoked a receiver connected with weak=False to which the
\* application holds no reference any more.
UnreferencedStrongReceiverInvoked ==
    \E t \in Threads, r \in Receivers :
        /\ Sending(t) /\ pc[t] = "done"
        /\ result[t].kind = "returned"
        /\ ~referenced[r]
        /\ frame[t].connected = {StrongEntry(r)}
        /\ invoked[t][r] = 1
        /\ frame[t].dead # {}
        /\ ~has_dead_receivers

\* Thread t has returned from a disconnect of a receiver that the set of the
\* signal type held twice: itself, and a weak reference to it.
DisconnectedFromBoth(t) ==
    /\ frame[t].op = "disconnect"
    /\ pc[t] = "done"
    /\ result[t].kind = "returned"
    /\ {StrongEntry(frame[t].receiver), WeakEntry(frame[t].receiver)}
           \subseteq frame[t].connected

\* C25 (as stated): when a receiver connected both with weak=True and with
\* weak=False is disconnected once, one of its two entries is still in the
\* set (and a second disconnect is needed to remove it).
SecondDisconnectNeeded ==
    \A t \in Threads :
        DisconnectedFromBoth(t) =>
            EntriesOf(ReceiversOf(receivers, frame[t].signal_type),
                      frame[t].receiver) # {}

\* C25: connect adds its entry to the set and takes none out, so that a
\* receiver connected with weak=True and with weak=False has two entries, and
\* a send invokes it once for each; one disconnect removes both, and a send
\* that begins afterwards does not invoke the receiver.
OneDisconnectRemovesBothEntries ==
    /\ [][\A t \in Threads :
             (pc[t] = "connect" /\ pc'[t] = "done") =>
                 LET s == frame[t].signal_type
                     e == [rcv |-> frame[t].receiver, weak |-> frame[t].weak]
                 IN ReceiversOf(receivers', s)
                        = ReceiversOf(receivers, s) \cup {e}]_vars
    /\ [](\A t \in Threads :
             (Sending(t) /\ pc[t] = "done" /\ result[t].kind = "returned") =>
                 \A r \in Receivers :
                     (alive[r] /\ {StrongEntry(r), WeakEntry(r)}
                                     \subseteq frame[t].connected) =>
                         invoked[t][r] = 2)
    /\ [](\A t \in Threads :
             DisconnectedFromBoth(t) =>
                 EntriesOf(ReceiversOf(receivers, frame[t].signal_type),
                           frame[t].receiver) = {})
    /\ [](\A t \in Threads :
             Sending(t) =>
                 \A r \in frame[t].disconnected : invoked[t][r] = 0)

\* One disconnect has emptied a set that held a receiver and a weak
\* reference to it.
BothEntriesRemovedAtOnce ==
    \E t \in Threads :
        /\ DisconnectedFromBoth(t)
        /\ frame[t].connected
               = {StrongEntry(frame[t].receiver), WeakEntry(frame[t].receiver)}
        /\ ReceiversOf(receivers, frame[t].signal_type) = {}

\* No thread is in a call on the dispatcher, and every finalizer of a
\* collected receiver has run.
Quiescent ==
    /\ \A t \in Threads : pc[t] \in {"idle", "done"}
    /\ \A r \in Receivers : ~alive[r] => finalizers[r] = 0

\* The entries of collected receivers that the sets hold.
DeadEntries ==
    UNION {{e \in receivers[s] : IsDead(e)} : s \in DOMAIN receivers}

\* C26: the finalizer of a collected receiver raises the flag, and the sweep
\* of the next connect, disconnect or send takes the dead entries out of
\* every set and lowers it; hence, when the flag is down, no call is in
\* progress and no finalizer is still to run, no set holds a dead entry.
NoDeadEntryWhileFlagIsDown ==
    (Quiescent /\ ~has_dead_receivers) => DeadEntries = {}

\* C28: a receiver that connects or disconnects receivers of the signal type
\* being delivered while send is calling it finds the lock free, and the
\* send still returns normally, having invoked exactly once every receiver
\* that had one entry in the set when the send began and that no receiver
\* connected or disconnected during the send.
ReentrantChangeKeepsDelivery ==
    \A t \in Threads :
        /\ pc[t] = "call" => lock = None
        /\ (Sending(t) /\ pc[t] = "done") =>
               /\ result[t] = Returned(None)
               /\ \A r \in Receivers \ frame[t].changed :
                      Cardinality(EntriesOf(frame[t].connected, r)) = 1 =>
                          invoked[t][r] = 1

\* Two maps hold the same keys with the same values.
SameItems(a, b) == DOMAIN a = DOMAIN b /\ \A k \in DOMAIN a : a[k] = b[k]

\* C29: once a listener has copied the registry, whenever the single caller
\* is between calls or a call of it has just ended, the listener's map,
\* to which it applied every item-set and item-removed signal in the order
\* delivered, holds exactly the registry's keys and values.
ReplicaHoldsRegistryContents ==
    (replica.listener # None /\ pc[Main] \in {"idle", "done"}) =>
        SameItems(replica.items, items)

\* A pop that took a key out has returned, the listener was called with the
\* item-removed signal, and its map, like the registry, still holds a key.
ReplicaFollowedPop ==
    /\ replica.listener # None
    /\ pc[Main] = "done"
    /\ frame[Main].op = "pop"
    /\ frame[Main].key \in DOMAIN before[Main]
    /\ invoked[Main][replica.listener] = 1
    /\ DOMAIN replica.items # {}
    /\ frame[Main].key \notin DOMAIN replica.items

\* The item-set signals for key that the current call of thread t has sent.
ItemSetSignals(t, key) ==
    {i \in DOMAIN emitted[t] :
        /\ emitted[t][i].type = "RegistryItemSet"
        /\ emitted[t][i].item_key = key}

\* C30: when two threads have each ended a call of setdefault for the same
\* key with different values, and the key was missing when one of them came
\* to store (no item is ever taken out, so it was missing when both calls
\* began unless the other call began after that store), the key is stored,
\* both calls returned the stored value, and the two calls together sent
\* exactly one item-set signal for the key.
ConcurrentSetDefaultStoresOnce ==
    \A t, u \in Threads :
        LET key == frame[t].key
        IN (/\ t # u
            /\ InRegistryOp(t, "setdefault") /\ pc[t] = "done"
            /\ InRegistryOp(u, "setdefault") /\ pc[u] = "done"
            /\ key # None /\ frame[u].key = key
            /\ frame[t].value # frame[u].value
            /\ key \notin DOMAIN before[t]) =>
               /\ key \in DOMAIN items
               /\ result[t] = Returned(items[key])
               /\ result[u] = Returned(items[key])
               /\ Cardinality(ItemSetSignals(t, key))
                      + Cardinality(ItemSetSignals(u, key)) = 1

====
